---- MODULE Spec2Model ----
(***************************************************************************)
(* Tree of Life diagram: color-table loader, diagram model, color          *)
(* resolver and rendering driver (src/color_utils.py,                      *)
(* src/tol/TreeOfLife.py).                                                 *)
(*                                                                         *)
(* Python values are modelled as follows.  A dict is a function whose      *)
(* DOMAIN is the set of its keys, so `k in d` is `k \in DOMAIN d` and      *)
(* d.get(k) is Get(d, k).  None is the empty function, which is falsy as   *)
(* in Python.  A call either returns or raises; a raise is recorded in     *)
(* the variable raised and leaves the object as the code left it at the    *)
(* point of the raise.                                                     *)
(***************************************************************************)
EXTENDS Integers, Sequences, FiniteSets, TLC

None == <<>>

\* Python truthiness of a dict-or-None value.
Truthy(v) == DOMAIN v # {}

Get(d, k) == IF k \in DOMAIN d THEN d[k] ELSE None

(***************************************************************************)
(* color_utils.ColorScheme                                                 *)
(***************************************************************************)
PLAIN == "plain"
KING_SCALE == "king"
QUEEN_SCALE == "queen"
PRINCE_SCALE == "prince"
PRINCESS_SCALE == "princess"

ColorScheme == {PLAIN, KING_SCALE, QUEEN_SCALE, PRINCE_SCALE, PRINCESS_SCALE}

SephirothNumbers == 1..10
PathNumbers == 11..32

DEFAULT_SEPHIROTH_COLORS == [n \in 0..10 |-> "#FFFFFF"]

DEFAULT_PATH_COLORS == [n \in 11..32 |-> "#FFFFFF"]

(***************************************************************************)
(* The color scales file.  A file is missing, unreadable (open() fails     *)
(* with an OSError other than FileNotFoundError), syntactically invalid    *)
(* YAML, an empty document (safe_load returns None) or a mapping.          *)
(***************************************************************************)
EffFleckedHex == [type |-> "flecked", color |-> "gold", hex |-> "#FFD700"]
EffRayedList == [type |-> "rayed",
                 colors |-> <<[name |-> "azure", hex |-> "#007FFF"],
                              [name |-> "black", hex |-> "#000000"]>>]
EffRayedListNoHex == [type |-> "rayed", colors |-> <<[name |-> "azure"]>>]
EffTingedBare == [type |-> "tinged"]
EffTingedHex == [type |-> "tinged", color |-> "purple", hex |-> "#800080"]
EffFleckedEmptyList == [type |-> "flecked", colors |-> <<>>]
EffNoType == [color |-> "gold", hex |-> "#FFD700"]

KingDoc ==
  [sephiroth |-> << [number |-> 0, hex |-> "#C8A2C8", effect |-> EffRayedList],
                    [number |-> 1, hex |-> "#FFFFFE"],
                    [number |-> 2, hex |-> "#00FF00", effect |-> EffFleckedHex],
                    [number |-> 6, hex |-> "#FFC0CB", effect |-> EffRayedList],
                    [number |-> 9, hex |-> "#4B0082", effect |-> EffNoType] >>,
   paths     |-> << [number |-> 11, hex |-> "#FFFF00", effect |-> EffRayedList],
                    [number |-> 13, hex |-> "#888888", effect |-> EffFleckedHex],
                    [number |-> 14, hex |-> "#0000FF", effect |-> EffTingedHex],
                    [number |-> 18, hex |-> "#FF0000", effect |-> EffFleckedHex],
                    [number |-> 32, hex |-> "#111111"] >>]

QueenDoc ==
  [sephiroth |-> << [number |-> 2, hex |-> "#808080"],
                    [number |-> 3, hex |-> "#000000", effect |-> EffTingedBare],
                    [number |-> 6, hex |-> "#FFFF00", effect |-> EffFleckedEmptyList] >>,
   paths     |-> << [number |-> 11, hex |-> "#00FFFF"],
                    [number |-> 12, hex |-> "#FF0000", effect |-> EffRayedListNoHex],
                    [number |-> 13, hex |-> "#0000FF"],
                    [number |-> 24, hex |-> "#FFA500",
                     effect |-> EffFleckedEmptyList],
                    [number |-> 25, hex |-> "#FFA500", effect |-> EffTingedBare] >>]

\* A scheme holding only one of the two lists.
PrinceDoc == [paths |-> << [number |-> 19, hex |-> "#FF0000"] >>]

\* A node entry and an edge entry whose hex color is missing.
NoHexDoc ==
  [sephiroth |-> << [number |-> 1, hex |-> "#FFFFFE"], [number |-> 2] >>,
   paths     |-> << [number |-> 11], [number |-> 12, hex |-> "#FF0000"] >>]

FileMissing == [kind |-> "missing"]
FileUnreadable == [kind |-> "unreadable"]
FileInvalid == [kind |-> "invalid"]
FileEmpty == [kind |-> "empty"]
FileNoScales == [kind |-> "map", data |-> [title |-> "colors"]]
FileScales ==
  [kind |-> "map",
   data |-> [scales |-> [king |-> KingDoc, queen |-> QueenDoc,
                         prince |-> PrinceDoc, emperor |-> KingDoc]]]
FileNoHex ==
  [kind |-> "map", data |-> [scales |-> [king |-> NoHexDoc]]]

Files == {FileMissing, FileUnreadable, FileInvalid, FileEmpty,
          FileNoScales, FileScales, FileNoHex}

(***************************************************************************)
(* ColorParser.parse_color_scales                                          *)
(***************************************************************************)
Return(v) == [raised |-> FALSE, value |-> v]
Raise(e) == [raised |-> TRUE, value |-> e]

\* The effect block of one entry: 'effects' of its color_info.
ParseEffect(entry) ==
  IF "effect" \in DOMAIN entry
  THEN LET eff == entry.effect
           has_type == "type" \in DOMAIN eff /\ eff.type # ""
           effect_type == eff.type
       IN IF has_type
          THEN IF "color" \in DOMAIN eff /\ "hex" \in DOMAIN eff
               THEN [type |-> effect_type, color2 |-> eff.color,
                     color2_hex |-> eff.hex]
               ELSE IF "colors" \in DOMAIN eff
                    THEN [type |-> effect_type, colors |-> eff.colors]
                    ELSE [type |-> effect_type]
          ELSE None
  ELSE None

\* color_info of one entry; entry['number'] and entry['hex'] raise KeyError
\* when the key is missing.
ParseEntry(entry) ==
  IF "number" \notin DOMAIN entry \/ "hex" \notin DOMAIN entry
  THEN Raise("KeyError")
  ELSE Return([color |-> entry.hex, effects |-> ParseEffect(entry)])

\* The loop over one list of entries, filling the map acc in list order.
RECURSIVE ParseEntries(_, _)
ParseEntries(entries, acc) ==
  IF entries = <<>> THEN Return(acc)
  ELSE LET info == ParseEntry(Head(entries))
       IN IF info.raised THEN info
          ELSE ParseEntries(Tail(entries),
                            (Head(entries).number :> info.value) @@ acc)

KnownScales == {"king", "queen", "prince", "princess"}

EmptyResult == [s \in KnownScales |-> [sephiroth |-> None, paths |-> None]]

\* One scale of the document: its 'sephiroth' list, then its 'paths' list.
ParseScale(scale_data) ==
  LET seph == IF "sephiroth" \in DOMAIN scale_data
              THEN ParseEntries(scale_data.sephiroth, None)
              ELSE Return(None)
      pth == IF "paths" \in DOMAIN scale_data
             THEN ParseEntries(scale_data.paths, None)
             ELSE Return(None)
  IN IF seph.raised THEN seph
     ELSE IF pth.raised THEN pth
     ELSE Return([sephiroth |-> seph.value, paths |-> pth.value])

parse_color_scales(file) ==
  IF file.kind = "missing" THEN Return(None)
  ELSE IF file.kind = "unreadable" THEN Raise("PermissionError")
  ELSE IF file.kind = "invalid" THEN Return(None)
  ELSE IF file.kind = "empty" THEN Raise("TypeError")
  ELSE IF "scales" \notin DOMAIN file.data THEN Return(EmptyResult)
  ELSE LET scales == file.data.scales
           used == DOMAIN scales \cap KnownScales
           parsed == [s \in used |-> ParseScale(scales[s])]
       IN IF \E s \in used : parsed[s].raised
          THEN Raise("KeyError")
          ELSE Return([s \in KnownScales |->
                        IF s \in used THEN parsed[s].value
                        ELSE EmptyResult[s]])

\* TreeOfLife._load_color_data
_load_color_data(file) ==
  IF file.kind # "missing"
  THEN parse_color_scales(file)
  ELSE Return(None)

(***************************************************************************)
(* TreeOfLife: the diagram model                                           *)
(***************************************************************************)
SephirothNames ==
  [n \in 0..10 |->
     CASE n = 0 -> "Da'ath" [] n = 1 -> "Kether" [] n = 2 -> "Chokmah"
       [] n = 3 -> "Binah" [] n = 4 -> "Chesed" [] n = 5 -> "Geburah"
       [] n = 6 -> "Tiphereth" [] n = 7 -> "Netzach" [] n = 8 -> "Hod"
       [] n = 9 -> "Yesod" [] n = 10 -> "Malkuth"]

\* path number -> (from_sephirah, to_sephirah), 1-based
path_connections ==
  [n \in PathNumbers |->
     CASE n = 11 -> <<1, 2>> [] n = 12 -> <<1, 3>> [] n = 13 -> <<1, 6>>
       [] n = 14 -> <<2, 3>> [] n = 15 -> <<2, 6>> [] n = 16 -> <<2, 4>>
       [] n = 17 -> <<3, 6>> [] n = 18 -> <<3, 5>> [] n = 19 -> <<4, 5>>
       [] n = 20 -> <<4, 6>> [] n = 21 -> <<4, 7>> [] n = 22 -> <<5, 6>>
       [] n = 23 -> <<5, 8>> [] n = 24 -> <<6, 7>> [] n = 25 -> <<6, 9>>
       [] n = 26 -> <<6, 8>> [] n = 27 -> <<7, 8>> [] n = 28 -> <<7, 9>>
       [] n = 29 -> <<7, 10>> [] n = 30 -> <<8, 9>> [] n = 31 -> <<8, 10>>
       [] n = 32 -> <<9, 10>>]

\* Lengths are exact integers.  sphere_scale_factor and spacing_factor are
\* held in hundredths (175 is 1.75), coordinates and radii in ten-thousandths
\* of a plot unit, so that a multiplier of the source written in hundredths
\* times a factor in hundredths is a coordinate.
default_sphere_scale_factor == 175
default_spacing_factor == 150
base_radius == 50

\* self.circle_radius = self.base_radius * self.sphere_scale_factor
circle_radius(scale) == base_radius * scale

\* self.vertical_shift = -0.5 * self.spacing_factor
vertical_shift(spacing) == (0 - 50) * spacing

\* Sephirah(number, name, coord, color) with color_effect defaulting to None
Sephirah(number, name, coord, color, color_effect) ==
  [number |-> number, name |-> name, coord |-> coord, color |-> color,
   color_effect |-> color_effect]

\* Path(number, connects, color) with color_effect defaulting to None
Path(number, connects, color, color_effect) ==
  [number |-> number, connects |-> connects, color |-> color,
   color_effect |-> color_effect]

\* The multipliers of spacing_factor in coords, in hundredths.
coord_factors ==
  [n \in SephirothNumbers |->
     CASE n = 1  -> <<0, 900>>
       [] n = 2  -> <<200, 800>>
       [] n = 3  -> <<0 - 200, 800>>
       [] n = 4  -> <<200, 550>>
       [] n = 5  -> <<0 - 200, 550>>
       [] n = 6  -> <<0, 425>>
       [] n = 7  -> <<200, 300>>
       [] n = 8  -> <<0 - 200, 300>>
       [] n = 9  -> <<0, 175>>
       [] n = 10 -> <<0, 0 - 70>>]

\* coords: Kether is not shifted, every other Sephirah is.
coords(spacing) ==
  [n \in SephirothNumbers |->
     << coord_factors[n][1] * spacing,
        coord_factors[n][2] * spacing
          + (IF n = 1 THEN 0 ELSE vertical_shift(spacing)) >>]

_init_sephiroth(spacing) ==
  [n \in SephirothNumbers |->
     Sephirah(n, SephirothNames[n], coords(spacing)[n],
              DEFAULT_SEPHIROTH_COLORS[n], None)]

\* Variant: Path 32 joins the Sephiroth that Path 31 joins.
_init_paths_Twice ==
  [n \in PathNumbers |->
     Path(n, IF n = 32
             THEN <<path_connections[31][1] - 1, path_connections[31][2] - 1>>
             ELSE <<path_connections[n][1] - 1, path_connections[n][2] - 1>>,
          DEFAULT_PATH_COLORS[n], None)]

\* connects holds the 0-based indices of the two Sephiroth
_init_paths ==
  [n \in PathNumbers |->
     Path(n, <<path_connections[n][1] - 1, path_connections[n][2] - 1>>,
          DEFAULT_PATH_COLORS[n], None)]

\* Variant: Da'ath is placed without the vertical shift.
_init_daath_Unshifted(spacing) ==
  Sephirah(0, "Da'ath", <<0, 675 * spacing>>,
           DEFAULT_SEPHIROTH_COLORS[0], None)

_init_daath(spacing) ==
  Sephirah(0, "Da'ath", <<0, 675 * spacing + vertical_shift(spacing)>>,
           DEFAULT_SEPHIROTH_COLORS[0], None)

SephirothTextMode == {"number", "trigram", "hebrew", "planet"}

(***************************************************************************)
(* TreeOfLife: the color resolver                                          *)
(***************************************************************************)
\* `not self.color_data or scheme_name not in self.color_data`
SchemeNotFound(cd, scheme_name) ==
  ~Truthy(cd) \/ scheme_name \notin DOMAIN cd

\* Variant: the plain branch carries the old effect over.
PlainSephirah_KeepEffect(sephirah) ==
  Sephirah(sephirah.number, sephirah.name, sephirah.coord,
           DEFAULT_SEPHIROTH_COLORS[sephirah.number], sephirah.color_effect)

\* plain branch, one Sephirah (also Da'ath)
PlainSephirah(sephirah) ==
  Sephirah(sephirah.number, sephirah.name, sephirah.coord,
           DEFAULT_SEPHIROTH_COLORS[sephirah.number], None)

\* Variant: an element without an entry falls back to its plain default.
ScaleSephirah_Fallback(sephirah, seph_data) ==
  IF Truthy(seph_data)
  THEN Sephirah(sephirah.number, sephirah.name, sephirah.coord,
                seph_data.color, seph_data.effects)
  ELSE Sephirah(sephirah.number, sephirah.name, sephirah.coord,
                DEFAULT_SEPHIROTH_COLORS[sephirah.number], None)

\* symbolic branch, one Sephirah, seph_data = table.get(number)
ScaleSephirah(sephirah, seph_data) ==
  IF Truthy(seph_data)
  THEN Sephirah(sephirah.number, sephirah.name, sephirah.coord,
                seph_data.color, seph_data.effects)
  ELSE sephirah

\* Variant: the unknown-scheme branch does not return early, so the empty
\* updated_sephiroth replaces the collection.
set_sephiroth_color_scheme_NoReturn(scheme, cd, seph, da) ==
  IF scheme = PLAIN
  THEN [sephiroth |-> [n \in DOMAIN seph |-> PlainSephirah(seph[n])],
        daath |-> PlainSephirah(da)]
  ELSE IF SchemeNotFound(cd, scheme)
       THEN [sephiroth |-> None, daath |-> da]
       ELSE [sephiroth |->
               [n \in DOMAIN seph |->
                  ScaleSephirah(seph[n], Get(cd[scheme].sephiroth, n))],
             daath |-> ScaleSephirah(da, Get(cd[scheme].sephiroth, 0))]

\* The Sephiroth and Da'ath after set_sephiroth_color_scheme(scheme).
set_sephiroth_color_scheme(scheme, cd, seph, da) ==
  IF scheme = PLAIN
  THEN [sephiroth |-> [n \in DOMAIN seph |-> PlainSephirah(seph[n])],
        daath |-> PlainSephirah(da)]
  ELSE IF SchemeNotFound(cd, scheme)
       THEN [sephiroth |-> seph, daath |-> da]
       ELSE [sephiroth |->
               [n \in DOMAIN seph |->
                  ScaleSephirah(seph[n], Get(cd[scheme].sephiroth, n))],
             daath |-> ScaleSephirah(da, Get(cd[scheme].sephiroth, 0))]

\* plain branch, one Path
PlainPath(path) ==
  Path(path.number, path.connects, DEFAULT_PATH_COLORS[path.number], None)

\* symbolic branch, one Path, path_data = table.get(number)
ScalePath(path, path_data) ==
  IF Truthy(path_data)
  THEN Path(path.number, path.connects, path_data.color, path_data.effects)
  ELSE path

\* Variant: the unknown-scheme branch does not return early, so the empty
\* updated_paths replaces the collection.
set_path_color_scheme_NoReturn(scheme, cd, pths) ==
  IF scheme = PLAIN
  THEN [n \in DOMAIN pths |-> PlainPath(pths[n])]
  ELSE IF SchemeNotFound(cd, scheme)
       THEN None
       ELSE [n \in DOMAIN pths |->
               ScalePath(pths[n], Get(cd[scheme].paths, n))]

\* The Paths after set_path_color_scheme(scheme).
set_path_color_scheme(scheme, cd, pths) ==
  IF scheme = PLAIN
  THEN [n \in DOMAIN pths |-> PlainPath(pths[n])]
  ELSE IF SchemeNotFound(cd, scheme)
       THEN pths
       ELSE [n \in DOMAIN pths |->
               ScalePath(pths[n], Get(cd[scheme].paths, n))]

(***************************************************************************)
(* color_utils.get_contrasting_text_color                                  *)
(***************************************************************************)
\* The characters of the color strings the model uses.
Chars(c) ==
  CASE c = "#FFFFFF" -> <<"#", "F", "F", "F", "F", "F", "F">>
    [] c = "#C8A2C8" -> <<"#", "C", "8", "A", "2", "C", "8">>
    [] c = "#FFFFFE" -> <<"#", "F", "F", "F", "F", "F", "E">>
    [] c = "#00FF00" -> <<"#", "0", "0", "F", "F", "0", "0">>
    [] c = "#FFC0CB" -> <<"#", "F", "F", "C", "0", "C", "B">>
    [] c = "#4B0082" -> <<"#", "4", "B", "0", "0", "8", "2">>
    [] c = "#FFFF00" -> <<"#", "F", "F", "F", "F", "0", "0">>
    [] c = "#888888" -> <<"#", "8", "8", "8", "8", "8", "8">>
    [] c = "#0000FF" -> <<"#", "0", "0", "0", "0", "F", "F">>
    [] c = "#111111" -> <<"#", "1", "1", "1", "1", "1", "1">>
    [] c = "#808080" -> <<"#", "8", "0", "8", "0", "8", "0">>
    [] c = "#000000" -> <<"#", "0", "0", "0", "0", "0", "0">>
    [] c = "#00FFFF" -> <<"#", "0", "0", "F", "F", "F", "F">>
    [] c = "#FF0000" -> <<"#", "F", "F", "0", "0", "0", "0">>
    [] c = "#FFA500" -> <<"#", "F", "F", "A", "5", "0", "0">>
    [] c = "#E0E0E0" -> <<"#", "E", "0", "E", "0", "E", "0">>
    [] c = "#FFD700" -> <<"#", "F", "F", "D", "7", "0", "0">>
    [] c = "#007FFF" -> <<"#", "0", "0", "7", "F", "F", "F">>
    [] c = "#800080" -> <<"#", "8", "0", "0", "0", "8", "0">>

HexDigit(ch) ==
  CASE ch = "0" -> 0 [] ch = "1" -> 1 [] ch = "2" -> 2 [] ch = "3" -> 3
    [] ch = "4" -> 4 [] ch = "5" -> 5 [] ch = "6" -> 6 [] ch = "7" -> 7
    [] ch = "8" -> 8 [] ch = "9" -> 9 [] ch = "A" -> 10 [] ch = "B" -> 11
    [] ch = "C" -> 12 [] ch = "D" -> 13 [] ch = "E" -> 14 [] ch = "F" -> 15

\* str.lstrip('#')
RECURSIVE LStripHash(_)
LStripHash(cs) ==
  IF cs # <<>> /\ Head(cs) = "#" THEN LStripHash(Tail(cs)) ELSE cs

\* The digit of a value 0..15, and the color string of three channels.
HexChar(v) == <<"0", "1", "2", "3", "4", "5", "6", "7", "8", "9",
                "A", "B", "C", "D", "E", "F">>[v + 1]

HexColor(r, g, b) ==
  << "#", HexChar(r \div 16), HexChar(r % 16), HexChar(g \div 16),
     HexChar(g % 16), HexChar(b \div 16), HexChar(b % 16) >>

\* int(bg_color[i:i+2], 16), i 0-based
HexByte(cs, i) == 16 * HexDigit(cs[i + 1]) + HexDigit(cs[i + 2])

\* brightness in thousandths, in exact arithmetic
Brightness(r, g, b) == 299 * r + 587 * g + 114 * b

\* The colors of exact brightness 150 for which the sum of the three
\* products, computed in double precision, is 149.99999999999997.  For the
\* other 99 colors of exact brightness 150 the sum is 150.0 or more, and for
\* every other color the sum lies on the side of 150 that the exact
\* brightness lies on.
RoundedBelow150 ==
  { <<7, 251, 5>>, <<8, 220, 162>>, <<11, 241, 46>>, <<37, 233, 19>>,
    <<41, 223, 60>>, <<49, 203, 142>>, <<93, 207, 6>>, <<120, 168, 136>>,
    <<135, 159, 143>>, <<146, 160, 109>>, <<202, 134, 96>>,
    <<217, 125, 103>>, <<232, 116, 110>>, <<247, 107, 117>> }

\* `brightness < 150`
BrightnessBelow150(r, g, b) ==
  Brightness(r, g, b) < 150000 \/ <<r, g, b>> \in RoundedBelow150

\* The last line: the color chosen by brightness.
BrightnessColor(r, g, b) ==
  IF BrightnessBelow150(r, g, b) THEN "#FFFFFF" ELSE "#000000"

\* Variant: the threshold is 128.
ContrastRGB_Threshold128(r, g, b) ==
  IF r = 0 /\ g > 240 /\ b = 0 THEN "#000000"
  ELSE IF Brightness(r, g, b) < 128000 THEN "#FFFFFF" ELSE "#000000"

\* Variant: the special case takes green 240 as well.
ContrastRGB_From240(r, g, b) ==
  IF r = 0 /\ g >= 240 /\ b = 0 THEN "#000000"
  ELSE BrightnessColor(r, g, b)

\* The result for the channels r, g, b.
ContrastRGB(r, g, b) ==
  IF r = 0 /\ g > 240 /\ b = 0 THEN "#000000"
  ELSE BrightnessColor(r, g, b)

\* The result for a color given by its characters.
ContrastOfChars(chars) ==
  LET bg_color == LStripHash(chars)
  IN ContrastRGB(HexByte(bg_color, 0), HexByte(bg_color, 2),
                 HexByte(bg_color, 4))

get_contrasting_text_color(background_color) ==
  ContrastOfChars(Chars(background_color))

(***************************************************************************)
(* TreeOfLife: focus sets                                                  *)
(***************************************************************************)
\* `x in path.connects`
InConnects(x, connects) == x = connects[1] \/ x = connects[2]

_get_connected_paths(pths, sephirah_num) ==
  {path_num \in DOMAIN pths : InConnects(sephirah_num - 1, pths[path_num].connects)}

\* Variant: the comparison picks the end that is sephirah_idx itself.
OtherEnd_Same(connects, sephirah_idx) ==
  (IF connects[1] = sephirah_idx THEN connects[1] ELSE connects[2]) + 1

\* The other Sephirah (1-based) of a path touching sephirah_idx.
OtherEnd(connects, sephirah_idx) ==
  (IF connects[2] = sephirah_idx THEN connects[1] ELSE connects[2]) + 1

_get_connected_sephiroth(pths, sephirah_num) ==
  {OtherEnd(pths[n].connects, sephirah_num - 1) :
     n \in {m \in DOMAIN pths : InConnects(sephirah_num - 1, pths[m].connects)}}
  \cup (IF 1 <= sephirah_num /\ sephirah_num <= 6 THEN {0} ELSE {})

(***************************************************************************)
(* TreeOfLife.render: the drawing commands, in the order they are issued   *)
(***************************************************************************)
\* focus_sephirah = None
NoFocus == -1


zorder_paths_outer == 1
zorder_paths_inner == 2
zorder_circles == 3
zorder_daath == 2
zorder_path_numbers == 4

\* Iteration orders of the path loops: the dict self.paths, and the two
\* sets as CPython iterates them.
NormalPathOrder == <<11, 12, 16, 18, 20, 21, 22, 23, 24, 26, 28, 29, 30, 31, 32>>
paths_underneath == <<17, 13, 25, 15>>
\* Variant: the third loop also takes a Path of each of the other two.
paths_special_Again == <<19, 27, 14, 11, 13>>
paths_special == <<19, 27, 14>>

\* `focus_sephirah is not None and 1 <= focus_sephirah <= 10`
IsFocused(focus) == focus # NoFocus /\ 1 <= focus /\ focus <= 10

PathsToDraw(pths, focus) ==
  IF IsFocused(focus) THEN _get_connected_paths(pths, focus) ELSE DOMAIN pths

SephirothToDraw(pths, seph, focus) ==
  IF IsFocused(focus)
  THEN _get_connected_sephiroth(pths, focus) \cup {focus}
  ELSE DOMAIN seph

\* _add_path_number: the label of one path
_add_path_number(pths, show, path_num, zorder) ==
  IF ~show THEN <<>>
  ELSE LET path_color == IF path_num \in DOMAIN pths
                         THEN pths[path_num].color ELSE "#888888"
           text_color == IF path_color # "#888888"
                         THEN get_contrasting_text_color(path_color)
                         ELSE "black"
       IN << [op |-> "text", path |-> path_num, color |-> text_color,
              zorder |-> zorder] >>

\* The state of the process-wide generator numpy.random: the stream it was
\* seeded with and the number of values drawn from that stream since.  A
\* generator nobody seeded runs on the stream -1.
Unseeded == [seed |-> 0 - 1, pos |-> 0]

\* Variant: seeding leaves the generator where it was.
Seed_Keep(rng, number) == rng

\* np.random.seed(number)
Seed(rng, number) == [seed |-> number, pos |-> 0]

\* k calls of np.random.uniform: the values drawn, named by their places in
\* the stream, and the generator afterwards.
Uniform(rng, k) ==
  [draws |-> [seed |-> rng.seed, from |-> rng.pos + 1, to |-> rng.pos + k],
   rng |-> [seed |-> rng.seed, pos |-> rng.pos + k]]

(***************************************************************************)
(* color_utils.blend_colors                                                *)
(***************************************************************************)
\* matplotlib.colors.to_rgb of a color '#RRGGBB': the channels, in 255ths
to_rgb(color) ==
  LET cs == Chars(color)
  IN << HexByte(cs, 1), HexByte(cs, 3), HexByte(cs, 5) >>

\* matplotlib.colors.to_hex: two lower-case digits for each channel
to_hex(rgb) ==
  LET digit(v) == <<"0", "1", "2", "3", "4", "5", "6", "7", "8", "9",
                    "a", "b", "c", "d", "e", "f">>[v + 1]
  IN << "#", digit(rgb[1] \div 16), digit(rgb[1] % 16),
        digit(rgb[2] \div 16), digit(rgb[2] % 16),
        digit(rgb[3] \div 16), digit(rgb[3] % 16) >>

\* The pairs of channel values of the colors of Chars for which
\* round((c1 / 255 * 0.7 + c2 / 255 * (1 - 0.7)) * 255), computed in double
\* precision, is the integer below the exact value n + 1/2; for the other
\* pairs with an exact value n + 1/2 it is the integer above.
BlendTiesDown ==
  { <<75, 0>>, <<75, 200>>, <<128, 203>>, <<130, 165>>, <<162, 17>>,
    <<192, 17>>, <<192, 127>>, <<200, 75>>, <<200, 215>>, <<200, 255>>,
    <<203, 128>>, <<215, 0>>, <<255, 0>>, <<255, 200>> }

\* One channel of the blend, ratio in hundredths:
\* round((c1 * ratio + c2 * (1 - ratio)) * 255) for channels c1 / 255 and
\* c2 / 255.
BlendChannel(c1, c2, ratio) ==
  LET n == ratio * c1 + (100 - ratio) * c2
  IN IF n % 100 = 50
     THEN (IF <<c1, c2>> \in BlendTiesDown THEN n \div 100
           ELSE n \div 100 + 1)
     ELSE (n + 50) \div 100

\* blend_colors(color1, color2, ratio): the characters of the blended color
blend_colors(color1, color2, ratio) ==
  LET rgb1 == to_rgb(color1)
      rgb2 == to_rgb(color2)
  IN to_hex([i \in 1..3 |-> BlendChannel(rgb1[i], rgb2[i], ratio)])

(***************************************************************************)
(* color_utils.apply_color_effect and apply_path_effect                    *)
(***************************************************************************)
\* Variant: the list of colors is asked before color2_hex.
SecondaryColor_ListFirst(effect) ==
  IF "colors" \in DOMAIN effect /\ Len(effect.colors) > 0
  THEN (IF "hex" \in DOMAIN effect.colors[1]
        THEN effect.colors[1].hex ELSE "#FFFFFF")
  ELSE IF "color2_hex" \in DOMAIN effect THEN effect.color2_hex
       ELSE "#FFFFFF"

\* The secondary color of an effect, as each branch of the two functions
\* resolves it: color2_hex, else the hex of the first entry of colors
\* (white when it has none), else white.
SecondaryColor(effect) ==
  IF "color2_hex" \in DOMAIN effect THEN effect.color2_hex
  ELSE IF "colors" \in DOMAIN effect /\ Len(effect.colors) > 0
       THEN (IF "hex" \in DOMAIN effect.colors[1]
             THEN effect.colors[1].hex ELSE "#FFFFFF")
       ELSE "#FFFFFF"

\* The local variables of a call that took no branch.
NoLocals == [branch |-> "none"]

\* color_utils.apply_color_effect for element_type 'sephirah': the
\* primitives it adds, the generator it leaves and the local variables of
\* the branch it took.  A fleck takes three values: angle, distance from
\* the center, size.
apply_color_effect(rng, number, coord, color, effect, radius) ==
  IF ~Truthy(effect) \/ "type" \notin DOMAIN effect
  THEN [cmds |-> <<>>, rng |-> rng, locals |-> NoLocals]
  ELSE IF effect.type = "flecked"
  THEN LET color2 == SecondaryColor(effect)
           num_flecks == 50
           u == Uniform(Seed(rng, number), 3 * num_flecks)
       IN IF radius = 0
          THEN [cmds |-> <<>>, rng |-> rng,
                locals |-> [branch |-> "flecked", color2 |-> color2]]
          ELSE [cmds |-> << [op |-> "flecks", seph |-> number,
                             color |-> color2,
                             count |-> num_flecks, draws |-> u.draws,
                             center |-> coord, radius |-> radius,
                             zorder |-> 5] >>,
                rng |-> u.rng,
                locals |-> [branch |-> "flecked", color2 |-> color2]]
  ELSE IF effect.type = "rayed"
  THEN LET color2 == SecondaryColor(effect)
       IN [cmds |-> IF radius = 0 THEN <<>>
                    ELSE << [op |-> "rays", seph |-> number,
                             color |-> color2, count |-> 12,
                             center |-> coord, zorder |-> 2] >>,
           rng |-> rng,
           locals |-> [branch |-> "rayed", color2 |-> color2]]
  ELSE IF effect.type = "tinged"
  THEN LET tinge_color == SecondaryColor(effect)
       IN [cmds |-> <<>>, rng |-> rng,
           locals |-> [branch |-> "tinged", tinge_color |-> tinge_color,
                       blended_color |->
                         blend_colors(color, tinge_color, 70)]]
  ELSE [cmds |-> <<>>, rng |-> rng, locals |-> NoLocals]

\* num_flecks = int(path_length * 15).  The coordinates of Sephiroth are
\* multiples of 5 * spacing: with dx = 5 * spacing * a and dy = 5 * spacing
\* * b, path_length * 15 is 3 * spacing * sqrt(a^2 + b^2) / 400, and for a
\* spacing that is a multiple of 10 its integer part is the largest k with
\* 1600 * k^2 <= (3 * spacing / 10)^2 * (a^2 + b^2).
NumFlecks(c1, c2, spacing) ==
  LET unit == 5 * spacing
      a == (c2[1] - c1[1]) \div unit
      b == (c2[2] - c1[2]) \div unit
      q == 3 * (spacing \div 10)
      bound == q * q * (a * a + b * b)
  IN CHOOSE k \in 0..400 :
       /\ 1600 * k * k <= bound
       /\ 1600 * (k + 1) * (k + 1) > bound

\* color_utils.apply_path_effect.  A fleck takes three values: place along
\* the path, offset across it, size.
apply_path_effect(rng, path_num, c1, c2, color, effect, scale, spacing) ==
  IF ~Truthy(effect) \/ "type" \notin DOMAIN effect
  THEN [cmds |-> <<>>, rng |-> rng, locals |-> NoLocals]
  ELSE IF effect.type = "flecked"
  THEN LET color2 == SecondaryColor(effect)
           num_flecks == NumFlecks(c1, c2, spacing)
           u == Uniform(Seed(rng, path_num), 3 * num_flecks)
       IN [cmds |-> IF num_flecks = 0 THEN <<>>
                    ELSE << [op |-> "flecks", path |-> path_num,
                             color |-> color2,
                             count |-> num_flecks, draws |-> u.draws,
                             ends |-> <<c1, c2>>, scale |-> scale,
                             zorder |-> 3] >>,
           rng |-> u.rng,
           locals |-> [branch |-> "flecked", color2 |-> color2]]
  ELSE IF effect.type = "rayed"
  THEN LET color2 == SecondaryColor(effect)
       IN [cmds |-> IF c1 = c2 THEN <<>>
                    ELSE << [op |-> "rays", path |-> path_num,
                             color |-> color2, count |-> 16,
                             ends |-> <<c1, c2>>, zorder_tenths |-> 25] >>,
           rng |-> rng,
           locals |-> [branch |-> "rayed", color2 |-> color2]]
  ELSE IF effect.type = "tinged"
  THEN [cmds |-> <<>>, rng |-> rng,
        locals |-> [branch |-> "tinged",
                    tinge_color |-> SecondaryColor(effect)]]
  ELSE [cmds |-> <<>>, rng |-> rng, locals |-> NoLocals]

\* line_width_outer and line_width_inner, in thousandths of a point
line_width_outer(scale) == 14 * (scale * 7)
line_width_inner(scale) == 10 * (scale * 7)

\* The color a path is drawn with: gray when it does not touch the focus.
PathColor(path, focus) ==
  IF focus # NoFocus /\ ~InConnects(focus - 1, path.connects)
  THEN "#888888"
  ELSE path.color

\* The two ax.plot calls of a path: the outer black line, then the inner
\* colored line.
PathStrokes(path_num, path_color, scale, lower) ==
  << [op |-> "plot", part |-> "outer", path |-> path_num,
      color |-> "black", linewidth |-> line_width_outer(scale),
      zorder |-> zorder_paths_outer - lower],
     [op |-> "plot", part |-> "inner", path |-> path_num,
      color |-> IF path_color # "#888888" THEN path_color ELSE "white",
      linewidth |-> line_width_inner(scale),
      zorder |-> zorder_paths_inner - lower] >>

\* The body of one path loop for one path; lower = 1 in the loop over
\* paths_underneath, 0 in the other two.  d is the diagram, rng the
\* generator before the path is drawn.
DrawPath(d, path_num, focus, lower, rng) ==
  LET path == d.paths[path_num]
      c1 == d.sephiroth[path.connects[1] + 1].coord
      c2 == d.sephiroth[path.connects[2] + 1].coord
      path_color == PathColor(path, focus)
      applies == Truthy(path.color_effect) /\ path_color # "#888888"
      eff == IF applies
             THEN apply_path_effect(rng, path_num, c1, c2, path.color,
                                    path.color_effect,
                                    d.sphere_scale_factor, d.spacing_factor)
             ELSE [cmds |-> <<>>, rng |-> rng]
  IN [cmds |-> PathStrokes(path_num, path_color, d.sphere_scale_factor, lower)
               \o (IF applies
                   THEN << [op |-> "apply_path_effect", path |-> path_num,
                            color |-> path.color,
                            effect |-> path.color_effect] >>
                   ELSE <<>>)
               \o eff.cmds
               \o _add_path_number(d.paths, d.show_path_text, path_num,
                                   zorder_path_numbers),
      rng |-> eff.rng]

\* One pass of a path loop: acc holds the commands issued so far and the
\* generator they left.
DrawPathStep(d, path_num, paths_to_draw, focus, lower, acc) ==
  IF path_num \in paths_to_draw /\ path_num \in DOMAIN d.paths
  THEN LET r == DrawPath(d, path_num, focus, lower, acc.rng)
       IN [cmds |-> acc.cmds \o r.cmds, rng |-> r.rng]
  ELSE acc

\* One of the three path loops from its i-th path on.  The set
\* constructors name the values of acc and of the pass, so that each is
\* computed once.
RECURSIVE DrawPathsFrom(_, _, _, _, _, _, _)
DrawPathsFrom(d, order, paths_to_draw, focus, lower, i, acc) ==
  IF i > Len(order) THEN acc
  ELSE CHOOSE out \in
         { DrawPathsFrom(d, order, paths_to_draw, focus, lower, i + 1, nxt) :
             nxt \in { DrawPathStep(d, order[i], paths_to_draw, focus,
                                    lower, a) : a \in {acc} } } : TRUE

\* One of the three path loops.
DrawPaths(d, order, paths_to_draw, focus, lower, rng) ==
  DrawPathsFrom(d, order, paths_to_draw, focus, lower, 1,
                [cmds |-> <<>>, rng |-> rng])

\* The text shown on a Sephirah in the current text mode.
\* str(seph_num) or the entry of the mode's map; Da'ath is blank in number
\* mode.
DisplayText(mode, seph_num) ==
  IF mode = "number"
  THEN (IF seph_num = 0 THEN [map |-> "blank", key |-> 0]
        ELSE [map |-> "str", key |-> seph_num])
  ELSE [map |-> mode, key |-> seph_num]

\* _add_kether_radiant_effect: ten glow circles, i = 20, 18 .. 2
_add_kether_radiant_effect ==
  [k \in 1..10 |->
     [op |-> "glow", i |-> 22 - 2 * k, facecolor |-> "white", zorder |-> 1]]

\* The body of the Sephiroth loop for one Sephirah.
DrawSephirah(d, seph_num, focus, rng) ==
  LET sephirah == d.sephiroth[seph_num]
      grayed == focus # NoFocus /\ seph_num # focus
      circle_face_color == IF grayed THEN "#E0E0E0" ELSE sephirah.color
      circle_edge_color == IF grayed THEN "#AAAAAA" ELSE "black"
      text_color == IF grayed THEN "#AAAAAA"
                    ELSE get_contrasting_text_color(circle_face_color)
      applies == Truthy(sephirah.color_effect)
                   /\ (focus = NoFocus \/ seph_num = focus)
      eff == IF applies
             THEN apply_color_effect(rng, seph_num, sephirah.coord,
                                     sephirah.color, sephirah.color_effect,
                                     circle_radius(d.sphere_scale_factor))
             ELSE [cmds |-> <<>>, rng |-> rng]
  IN [cmds |-> << [op |-> "circle", seph |-> seph_num,
                   center |-> sephirah.coord,
                   radius |-> circle_radius(d.sphere_scale_factor),
                   facecolor |-> circle_face_color,
                   edgecolor |-> circle_edge_color,
                   linestyle |-> "solid", zorder |-> zorder_circles] >>
               \o (IF applies
                   THEN << [op |-> "apply_color_effect", seph |-> seph_num,
                            color |-> sephirah.color,
                            effect |-> sephirah.color_effect] >>
                   ELSE <<>>)
               \o eff.cmds
               \o (IF d.show_sephiroth_text
                   THEN << [op |-> "text", seph |-> seph_num,
                            text |-> DisplayText(d.sephiroth_text_mode,
                                                 seph_num),
                            color |-> text_color,
                            zorder |-> zorder_circles + 1] >>
                   ELSE <<>>)
               \o (IF seph_num = 1 THEN _add_kether_radiant_effect
                   ELSE <<>>),
      rng |-> eff.rng]

\* The loop over self.sephiroth.items(), in the order of insertion 1..10.
\* One pass of the Sephiroth loop.
DrawSephirahStep(d, seph_num, sephiroth_to_draw, focus, acc) ==
  IF seph_num \in DOMAIN d.sephiroth /\ seph_num \in sephiroth_to_draw
  THEN LET r == DrawSephirah(d, seph_num, focus, acc.rng)
       IN [cmds |-> acc.cmds \o r.cmds, rng |-> r.rng]
  ELSE acc

RECURSIVE DrawSephirothFrom(_, _, _, _, _)
DrawSephirothFrom(d, sephiroth_to_draw, focus, n, acc) ==
  IF n > 10 THEN acc
  ELSE CHOOSE out \in
         { DrawSephirothFrom(d, sephiroth_to_draw, focus, n + 1, nxt) :
             nxt \in { DrawSephirahStep(d, n, sephiroth_to_draw, focus, a) :
                         a \in {acc} } } : TRUE

DrawSephiroth(d, sephiroth_to_draw, focus, rng) ==
  DrawSephirothFrom(d, sephiroth_to_draw, focus, 1,
                    [cmds |-> <<>>, rng |-> rng])

\* The Da'ath block.
DrawDaath(d, focus, rng) ==
  IF focus = NoFocus \/ focus = 1 \/ focus = 6
  THEN LET da == d.daath
           color == IF focus # NoFocus /\ focus \notin {1, 6}
                    THEN "#E0E0E0" ELSE da.color
           daath_border_color == IF focus # NoFocus THEN "#AAAAAA"
                                 ELSE "black"
           applies == Truthy(da.color_effect)
                        /\ (focus = NoFocus \/ focus \in {1, 6})
           eff == IF applies
                  THEN apply_color_effect(rng, 0, da.coord, color,
                                          da.color_effect,
                                          circle_radius(d.sphere_scale_factor))
                  ELSE [cmds |-> <<>>, rng |-> rng]
       IN [cmds |-> << [op |-> "circle", seph |-> 0,
                        center |-> da.coord,
                        radius |-> circle_radius(d.sphere_scale_factor),
                        facecolor |-> color,
                        edgecolor |-> daath_border_color,
                        linestyle |-> "dashed", zorder |-> zorder_daath] >>
                    \o (IF applies
                        THEN << [op |-> "apply_color_effect", seph |-> 0,
                                 color |-> color,
                                 effect |-> da.color_effect] >>
                        ELSE <<>>)
                    \o eff.cmds
                    \o (IF d.show_sephiroth_text
                        THEN << [op |-> "text", seph |-> 0,
                                 text |-> DisplayText(d.sephiroth_text_mode, 0),
                                 color |-> IF focus # NoFocus THEN "#AAAAAA"
                                           ELSE get_contrasting_text_color(color),
                                 zorder |-> zorder_daath + 1] >>
                        ELSE <<>>),
           rng |-> eff.rng]
  ELSE [cmds |-> <<>>, rng |-> rng]

(***************************************************************************)
(* TreeOfLife._calculate_focus_bounds and the plot limits                  *)
(*                                                                         *)
(* Plot limits and the points they are computed from are held in quarters  *)
(* of a ten-thousandth of a plot unit (4 times a coordinate), the unit in  *)
(* which the midpoint of two coordinates and the half of a difference of   *)
(* two extents are integers.                                               *)
(***************************************************************************)
SetMin(S) == CHOOSE x \in S : \A y \in S : x <= y
SetMax(S) == CHOOSE x \in S : \A y \in S : x >= y

\* The midpoint of a Path, raised by special_offset_y for Paths 13 and 25.
LabelPoint(d, path_num) ==
  LET path == d.paths[path_num]
      c1 == d.sephiroth[path.connects[1] + 1].coord
      c2 == d.sephiroth[path.connects[2] + 1].coord
      special_offset_y == IF path_num = 13 THEN 160 * d.spacing_factor
                          ELSE IF path_num = 25 THEN 38 * d.spacing_factor
                          ELSE 0
  IN << 2 * (c1[1] + c2[1]), 2 * (c1[2] + c2[2]) + 4 * special_offset_y >>

\* The points over which the four extremes are taken: the Sephiroth to
\* draw, Da'ath when 1 or 6 is among them, the label points of the Paths
\* to draw.
FocusPoints(d, sephiroth_to_draw, paths_to_draw) ==
  { << 4 * d.sephiroth[n].coord[1], 4 * d.sephiroth[n].coord[2] >> :
      n \in sephiroth_to_draw \cap DOMAIN d.sephiroth }
    \cup (IF 1 \in sephiroth_to_draw \/ 6 \in sephiroth_to_draw
          THEN { << 4 * d.daath.coord[1], 4 * d.daath.coord[2] >> }
          ELSE {})
    \cup { LabelPoint(d, e) : e \in paths_to_draw \cap DOMAIN d.paths }

\* min_x, max_x, min_y, max_y before the padding
FocusBox(points) ==
  [min_x |-> SetMin({pt[1] : pt \in points}),
   max_x |-> SetMax({pt[1] : pt \in points}),
   min_y |-> SetMin({pt[2] : pt \in points}),
   max_y |-> SetMax({pt[2] : pt \in points})]

\* padding_x = padding_y = self.circle_radius * 2.5
FocusPadding(scale) == 10 * circle_radius(scale)

\* Variant: the box is padded and not squared.
_calculate_focus_bounds_PadOnly(d, sephiroth_to_draw, paths_to_draw) ==
  LET box == FocusBox(FocusPoints(d, sephiroth_to_draw, paths_to_draw))
      padding == FocusPadding(d.sphere_scale_factor)
  IN [min_x |-> box.min_x - padding, max_x |-> box.max_x + padding,
      min_y |-> box.min_y - padding, max_y |-> box.max_y + padding]

\* Variant: the longer axis is cut to the length of the shorter one.
_calculate_focus_bounds_Crop(d, sephiroth_to_draw, paths_to_draw) ==
  LET box == FocusBox(FocusPoints(d, sephiroth_to_draw, paths_to_draw))
      padding == FocusPadding(d.sphere_scale_factor)
      width == box.max_x - box.min_x + padding * 2
      height == box.max_y - box.min_y + padding * 2
  IN IF width > height
     THEN LET width_diff == (width - height) \div 2
          IN [min_x |-> box.min_x + width_diff - padding,
              max_x |-> box.max_x - width_diff + padding,
              min_y |-> box.min_y - padding,
              max_y |-> box.max_y + padding]
     ELSE LET height_diff == (height - width) \div 2
          IN [min_x |-> box.min_x - padding,
              max_x |-> box.max_x + padding,
              min_y |-> box.min_y + height_diff - padding,
              max_y |-> box.max_y - height_diff + padding]

\* _calculate_focus_bounds: (min_x, max_x, min_y, max_y) for the plot
_calculate_focus_bounds(d, sephiroth_to_draw, paths_to_draw) ==
  LET box == FocusBox(FocusPoints(d, sephiroth_to_draw, paths_to_draw))
      padding == FocusPadding(d.sphere_scale_factor)
      width == box.max_x - box.min_x + padding * 2
      height == box.max_y - box.min_y + padding * 2
  IN IF width > height
     THEN LET height_diff == (width - height) \div 2
          IN [min_x |-> box.min_x - padding,
              max_x |-> box.max_x + padding,
              min_y |-> box.min_y - height_diff - padding,
              max_y |-> box.max_y + height_diff + padding]
     ELSE LET width_diff == (height - width) \div 2
          IN [min_x |-> box.min_x - width_diff - padding,
              max_x |-> box.max_x + width_diff + padding,
              min_y |-> box.min_y - padding,
              max_y |-> box.max_y + padding]

\* The limits of the view without focus: x from -4.0 to 4.0, y from -3.5
\* to 15.0.
FullViewLimits ==
  [min_x |-> 0 - 160000, max_x |-> 160000,
   min_y |-> 0 - 140000, max_y |-> 600000]

\* ax.set_xlim and ax.set_ylim
SetLimits(d, focus) ==
  LET limits == IF IsFocused(focus)
                THEN _calculate_focus_bounds(
                       d, SephirothToDraw(d.paths, d.sephiroth, focus),
                       PathsToDraw(d.paths, focus))
                ELSE FullViewLimits
  IN << [op |-> "set_xlim", left |-> limits.min_x, right |-> limits.max_x],
        [op |-> "set_ylim", bottom |-> limits.min_y, top |-> limits.max_y] >>

\* Variant: the Sephiroth are drawn before the Paths.
DrawDiagram_NodesFirst(d, focus, rng) ==
  LET paths_to_draw == PathsToDraw(d.paths, focus)
      sephiroth_to_draw == SephirothToDraw(d.paths, d.sephiroth, focus)
      s == DrawSephiroth(d, sephiroth_to_draw, focus, rng)
      p1 == DrawPaths(d, NormalPathOrder, paths_to_draw, focus, 0, s.rng)
      p2 == DrawPaths(d, paths_underneath, paths_to_draw, focus, 1, p1.rng)
      p3 == DrawPaths(d, paths_special, paths_to_draw, focus, 0, p2.rng)
      h == DrawDaath(d, focus, p3.rng)
  IN SetLimits(d, focus)
       \o s.cmds \o p1.cmds \o p2.cmds \o p3.cmds \o h.cmds

\* The plot limits and everything render draws before the title block, for
\* the diagram d, the focus and the generator rng that render finds.
DrawDiagram(d, focus, rng) ==
  LET paths_to_draw == PathsToDraw(d.paths, focus)
      sephiroth_to_draw == SephirothToDraw(d.paths, d.sephiroth, focus)
      p1 == DrawPaths(d, NormalPathOrder, paths_to_draw, focus, 0, rng)
      p2 == DrawPaths(d, paths_underneath, paths_to_draw, focus, 1, p1.rng)
      p3 == DrawPaths(d, paths_special, paths_to_draw, focus, 0, p2.rng)
      s == DrawSephiroth(d, sephiroth_to_draw, focus, p3.rng)
      h == DrawDaath(d, focus, s.rng)
  IN SetLimits(d, focus)
       \o p1.cmds \o p2.cmds \o p3.cmds \o s.cmds \o h.cmds

\* The title block: self.sephiroth[focus_sephirah] raises KeyError for a
\* focus that is not a key.
Title(seph, focus, show_title) ==
  IF show_title /\ focus # NoFocus
  THEN IF focus \in DOMAIN seph
       THEN Return(<< [op |-> "suptitle", name |-> seph[focus].name,
                       number |-> focus] >>)
       ELSE Raise("KeyError")
  ELSE Return(<<>>)


(***************************************************************************)
(* treegen: the configuration document and create_tree_from_config         *)
(***************************************************************************)
\* The names of the members of ColorScheme and of SephirothTextMode, which
\* the document holds in place of the values.
ColorSchemeName ==
  [v \in ColorScheme |->
     CASE v = PLAIN -> "PLAIN"
       [] v = KING_SCALE -> "KING_SCALE"
       [] v = QUEEN_SCALE -> "QUEEN_SCALE"
       [] v = PRINCE_SCALE -> "PRINCE_SCALE"
       [] v = PRINCESS_SCALE -> "PRINCESS_SCALE"]

SephirothTextModeName ==
  [v \in SephirothTextMode |->
     CASE v = "number" -> "NUMBER"
       [] v = "trigram" -> "TRIGRAM"
       [] v = "hebrew" -> "HEBREW"
       [] v = "planet" -> "PLANET"]

\* getattr(enum, name): the member of that name; AttributeError without one
GetAttr(names, name) ==
  IF \E v \in DOMAIN names : names[v] = name
  THEN Return(CHOOSE v \in DOMAIN names : names[v] = name)
  ELSE Raise("AttributeError")

\* The document that records the configuration of the diagram d: the
\* sections and keys that create_tree_from_config reads.
ConfigOf(d) ==
  [basic |-> [sphere_scale_factor |-> d.sphere_scale_factor,
              spacing_factor |-> d.spacing_factor],
   color_schemes |-> [sephiroth |-> ColorSchemeName[d.sephiroth_color_scheme],
                      path |-> ColorSchemeName[d.path_color_scheme]],
   text_display |-> [sephiroth_mode |->
                       SephirothTextModeName[d.sephiroth_text_mode],
                     sephiroth_visible |-> d.show_sephiroth_text,
                     path_visible |-> d.show_path_text]]

\* Variant: the scheme of the Paths is not applied.
create_tree_from_config_NoPaths(config, file) ==
  LET loaded == _load_color_data(file)
      sephiroth_scheme == GetAttr(ColorSchemeName, config.color_schemes.sephiroth)
      path_scheme == GetAttr(ColorSchemeName, config.color_schemes.path)
      sephiroth_mode == GetAttr(SephirothTextModeName,
                                config.text_display.sephiroth_mode)
  IN IF loaded.raised \/ sephiroth_scheme.raised \/ path_scheme.raised
          \/ sephiroth_mode.raised
     THEN Raise("SystemExit")
     ELSE LET spacing == config.basic.spacing_factor
              init == set_sephiroth_color_scheme(PLAIN, loaded.value,
                                                 _init_sephiroth(spacing),
                                                 _init_daath(spacing))
              r == set_sephiroth_color_scheme(sephiroth_scheme.value,
                                              loaded.value, init.sephiroth,
                                              init.daath)
          IN Return(
               [sphere_scale_factor |-> config.basic.sphere_scale_factor,
                spacing_factor |-> spacing,
                color_data |-> loaded.value,
                sephiroth |-> r.sephiroth,
                daath |-> r.daath,
                paths |-> set_path_color_scheme(PLAIN, loaded.value,
                                                _init_paths),
                sephiroth_color_scheme |-> sephiroth_scheme.value,
                path_color_scheme |-> path_scheme.value,
                sephiroth_text_mode |-> sephiroth_mode.value,
                show_sephiroth_text |-> config.text_display.sephiroth_visible,
                show_path_text |-> config.text_display.path_visible])

\* create_tree_from_config: TreeOfLife(sphere_scale_factor, spacing_factor)
\* with both schemes plain and the color scales file of the default, then
\* the five setters; any exception ends the program.
create_tree_from_config(config, file) ==
  LET loaded == _load_color_data(file)
      sephiroth_scheme == GetAttr(ColorSchemeName, config.color_schemes.sephiroth)
      path_scheme == GetAttr(ColorSchemeName, config.color_schemes.path)
      sephiroth_mode == GetAttr(SephirothTextModeName,
                                config.text_display.sephiroth_mode)
  IN IF loaded.raised \/ sephiroth_scheme.raised \/ path_scheme.raised
          \/ sephiroth_mode.raised
     THEN Raise("SystemExit")
     ELSE LET spacing == config.basic.spacing_factor
              init == set_sephiroth_color_scheme(PLAIN, loaded.value,
                                                 _init_sephiroth(spacing),
                                                 _init_daath(spacing))
              r == set_sephiroth_color_scheme(sephiroth_scheme.value,
                                              loaded.value, init.sephiroth,
                                              init.daath)
          IN Return(
               [sphere_scale_factor |-> config.basic.sphere_scale_factor,
                spacing_factor |-> spacing,
                color_data |-> loaded.value,
                sephiroth |-> r.sephiroth,
                daath |-> r.daath,
                paths |-> set_path_color_scheme(
                            path_scheme.value, loaded.value,
                            set_path_color_scheme(PLAIN, loaded.value,
                                                  _init_paths)),
                sephiroth_color_scheme |-> sephiroth_scheme.value,
                path_color_scheme |-> path_scheme.value,
                sephiroth_text_mode |-> sephiroth_mode.value,
                show_sephiroth_text |-> config.text_display.sephiroth_visible,
                show_path_text |-> config.text_display.path_visible])

(***************************************************************************)
(* State                                                                   *)
(***************************************************************************)
VARIABLES
  pc,                     \* "new", "ready" or "failed" (__init__ raised)
  sphere_scale_factor,    \* self.sphere_scale_factor, in hundredths
  spacing_factor,         \* self.spacing_factor, in hundredths
  color_scales_file,      \* the file the diagram was constructed with
  color_data,             \* self.color_data
  sephiroth,              \* self.sephiroth
  daath,                  \* self.daath
  paths,                  \* self.paths
  sephiroth_color_scheme, \* self.sephiroth_color_scheme
  path_color_scheme,      \* self.path_color_scheme
  show_sephiroth_text,    \* self.show_sephiroth_text
  show_path_text,         \* self.show_path_text
  sephiroth_text_mode,    \* self.sephiroth_text_mode
  call,                   \* the call made last and its arguments
  raised,                 \* the exception the last call raised, or ""
  fig                     \* the drawing commands the last call issued, or
                          \* what it returned

model == <<sphere_scale_factor, spacing_factor, color_scales_file,
           color_data, sephiroth, daath, paths,
           sephiroth_color_scheme, path_color_scheme,
           show_sephiroth_text, show_path_text, sephiroth_text_mode>>

\* The diagram object that the methods read.
self ==
  [sphere_scale_factor |-> sphere_scale_factor,
   spacing_factor |-> spacing_factor,
   sephiroth |-> sephiroth, daath |-> daath, paths |-> paths,
   sephiroth_color_scheme |-> sephiroth_color_scheme,
   path_color_scheme |-> path_color_scheme,
   show_sephiroth_text |-> show_sephiroth_text,
   show_path_text |-> show_path_text,
   sephiroth_text_mode |-> sephiroth_text_mode]

vars == <<pc, model, call, raised, fig>>

Init ==
  /\ pc = "new"
  /\ sphere_scale_factor = default_sphere_scale_factor
  /\ spacing_factor = default_spacing_factor
  /\ color_scales_file = None
  /\ color_data = None
  /\ sephiroth = None
  /\ daath = None
  /\ paths = None
  /\ sephiroth_color_scheme = PLAIN
  /\ path_color_scheme = PLAIN
  /\ show_sephiroth_text = TRUE
  /\ show_path_text = TRUE
  /\ sephiroth_text_mode = "number"
  /\ call = [op |-> "none"]
  /\ raised = ""
  /\ fig = <<>>

\* TreeOfLife.__init__
Construct(scale, spacing, s1, s2, file) ==
  /\ pc = "new"
  /\ call' = [op |-> "__init__", sphere_scale_factor |-> scale,
              spacing_factor |-> spacing, file |-> file,
              sephiroth_scheme |-> s1, path_scheme |-> s2]
  /\ fig' = <<>>
  /\ sphere_scale_factor' = scale
  /\ spacing_factor' = spacing
  /\ color_scales_file' = file
  /\ sephiroth_color_scheme' = s1
  /\ path_color_scheme' = s2
  /\ LET loaded == _load_color_data(file)
     IN IF loaded.raised
        THEN /\ pc' = "failed"
             /\ raised' = loaded.value
             /\ UNCHANGED <<color_data, sephiroth, daath, paths,
                            show_sephiroth_text, show_path_text,
                            sephiroth_text_mode>>
        ELSE LET r == set_sephiroth_color_scheme(s1, loaded.value,
                                                 _init_sephiroth(spacing),
                                                 _init_daath(spacing))
             IN /\ pc' = "ready"
                /\ raised' = ""
                /\ color_data' = loaded.value
                /\ sephiroth' = r.sephiroth
                /\ daath' = r.daath
                /\ paths' = set_path_color_scheme(s2, loaded.value, _init_paths)
                /\ show_sephiroth_text' = TRUE
                /\ show_path_text' = TRUE
                /\ sephiroth_text_mode' = "number"

\* Variant: the scheme is recorded for both collections.
SetSephirothColorScheme_Both(scheme) ==
  /\ pc = "ready"
  /\ call' = [op |-> "set_sephiroth_color_scheme", scheme |-> scheme]
  /\ raised' = ""
  /\ fig' = <<>>
  /\ sephiroth_color_scheme' = scheme
  /\ path_color_scheme' = scheme
  /\ LET r == set_sephiroth_color_scheme(scheme, color_data, sephiroth, daath)
     IN /\ sephiroth' = r.sephiroth
        /\ daath' = r.daath
  /\ UNCHANGED <<pc, sphere_scale_factor, spacing_factor, color_scales_file,
                 color_data, paths,
                 show_sephiroth_text, show_path_text, sephiroth_text_mode>>

\* TreeOfLife.set_sephiroth_color_scheme
SetSephirothColorScheme(scheme) ==
  /\ pc = "ready"
  /\ call' = [op |-> "set_sephiroth_color_scheme", scheme |-> scheme]
  /\ raised' = ""
  /\ fig' = <<>>
  /\ sephiroth_color_scheme' = scheme
  /\ LET r == set_sephiroth_color_scheme(scheme, color_data, sephiroth, daath)
     IN /\ sephiroth' = r.sephiroth
        /\ daath' = r.daath
  /\ UNCHANGED <<pc, sphere_scale_factor, spacing_factor, color_scales_file,
                 color_data, paths, path_color_scheme,
                 show_sephiroth_text, show_path_text, sephiroth_text_mode>>

\* TreeOfLife.set_path_color_scheme
SetPathColorScheme(scheme) ==
  /\ pc = "ready"
  /\ call' = [op |-> "set_path_color_scheme", scheme |-> scheme]
  /\ raised' = ""
  /\ fig' = <<>>
  /\ path_color_scheme' = scheme
  /\ paths' = set_path_color_scheme(scheme, color_data, paths)
  /\ UNCHANGED <<pc, sphere_scale_factor, spacing_factor, color_scales_file,
                 color_data, sephiroth, daath,
                 sephiroth_color_scheme, show_sephiroth_text, show_path_text,
                 sephiroth_text_mode>>

\* TreeOfLife.set_sephiroth_text_visibility
SetSephirothTextVisibility(visible) ==
  /\ pc = "ready"
  /\ call' = [op |-> "set_sephiroth_text_visibility", visible |-> visible]
  /\ raised' = ""
  /\ fig' = <<>>
  /\ show_sephiroth_text' = visible
  /\ UNCHANGED <<pc, sphere_scale_factor, spacing_factor, color_scales_file,
                 color_data, sephiroth, daath, paths,
                 sephiroth_color_scheme, path_color_scheme, show_path_text,
                 sephiroth_text_mode>>

\* TreeOfLife.set_path_text_visibility
SetPathTextVisibility(visible) ==
  /\ pc = "ready"
  /\ call' = [op |-> "set_path_text_visibility", visible |-> visible]
  /\ raised' = ""
  /\ fig' = <<>>
  /\ show_path_text' = visible
  /\ UNCHANGED <<pc, sphere_scale_factor, spacing_factor, color_scales_file,
                 color_data, sephiroth, daath, paths,
                 sephiroth_color_scheme, path_color_scheme,
                 show_sephiroth_text, sephiroth_text_mode>>

\* TreeOfLife.set_sephiroth_text_mode
SetSephirothTextMode(mode) ==
  /\ pc = "ready"
  /\ call' = [op |-> "set_sephiroth_text_mode", mode |-> mode]
  /\ raised' = ""
  /\ fig' = <<>>
  /\ sephiroth_text_mode' = mode
  /\ UNCHANGED <<pc, sphere_scale_factor, spacing_factor, color_scales_file,
                 color_data, sephiroth, daath, paths,
                 sephiroth_color_scheme, path_color_scheme,
                 show_sephiroth_text, show_path_text>>

Focuses == {NoFocus} \cup 0..11

\* Variant: the gray of a focused render is written back to the Paths.
Render_StoresGray(focus, show_title, rng) ==
  /\ pc = "ready"
  /\ call' = [op |-> "render", focus |-> focus, show_title |-> show_title,
              rng |-> rng]
  /\ LET drawn == DrawDiagram(self, focus, rng)
         title == Title(sephiroth, focus, show_title)
     IN IF title.raised
        THEN /\ raised' = title.value
             /\ fig' = drawn
        ELSE /\ raised' = ""
             /\ fig' = drawn \o title.value
  /\ paths' = [n \in DOMAIN paths |->
                 Path(paths[n].number, paths[n].connects,
                      PathColor(paths[n], focus), paths[n].color_effect)]
  /\ UNCHANGED <<pc, sphere_scale_factor, spacing_factor, color_scales_file,
                 color_data, sephiroth, daath,
                 sephiroth_color_scheme, path_color_scheme,
                 show_sephiroth_text, show_path_text, sephiroth_text_mode>>

\* TreeOfLife.render
Render(focus, show_title, rng) ==
  /\ pc = "ready"
  /\ call' = [op |-> "render", focus |-> focus, show_title |-> show_title,
              rng |-> rng]
  /\ LET drawn == DrawDiagram(self, focus, rng)
         title == Title(sephiroth, focus, show_title)
     IN IF title.raised
        THEN /\ raised' = title.value
             /\ fig' = drawn
        ELSE /\ raised' = ""
             /\ fig' = drawn \o title.value
  /\ UNCHANGED <<pc, model>>

\* Every call of the color resolver and of the text settings, every file.
Next ==
  \/ \E file \in Files, s1 \in ColorScheme, s2 \in ColorScheme :
       Construct(default_sphere_scale_factor, default_spacing_factor,
                 s1, s2, file)
  \/ \E scheme \in ColorScheme : SetSephirothColorScheme(scheme)
  \/ \E scheme \in ColorScheme : SetPathColorScheme(scheme)
  \/ \E visible \in BOOLEAN : SetSephirothTextVisibility(visible)
  \/ \E visible \in BOOLEAN : SetPathTextVisibility(visible)
  \/ \E mode \in SephirothTextMode : SetSephirothTextMode(mode)

Spec == Init /\ [][Next]_vars

\* The same calls over smaller input sets, and render with every focus.
RenderFiles == {FileScales, FileMissing}
RenderSchemes == {PLAIN, KING_SCALE, QUEEN_SCALE}
RenderTextModes == {"number", "hebrew"}

NextRender ==
  \/ \E file \in RenderFiles, s1 \in RenderSchemes, s2 \in RenderSchemes :
       Construct(default_sphere_scale_factor, default_spacing_factor,
                 s1, s2, file)
  \/ \E scheme \in RenderSchemes : SetSephirothColorScheme(scheme)
  \/ \E scheme \in RenderSchemes : SetPathColorScheme(scheme)
  \/ \E visible \in BOOLEAN : SetSephirothTextVisibility(visible)
  \/ \E visible \in BOOLEAN : SetPathTextVisibility(visible)
  \/ \E mode \in RenderTextModes : SetSephirothTextMode(mode)
  \/ \E focus \in Focuses, show_title \in BOOLEAN :
       Render(focus, show_title, Unseeded)

SpecRender == Init /\ [][NextRender]_vars

\* Diagrams of several sizes, the two collections under three schemes, and
\* render finding the generator fresh or as earlier drawing left it.
GeometryScales == {100, default_sphere_scale_factor}
GeometrySpacings == {100, default_spacing_factor, 200}
GeometrySchemes == {PLAIN, KING_SCALE, QUEEN_SCALE}
GeometryFocuses == {NoFocus} \cup 1..10
GeneratorStates == {Unseeded, [seed |-> 2, pos |-> 150],
                    [seed |-> 18, pos |-> 7]}

\* create_tree_from_config, given the document that records the
\* configuration of the diagram; the diagram it returns takes the place of
\* that diagram.
CreateTreeFromConfig ==
  /\ pc = "ready"
  /\ call' = [op |-> "create_tree_from_config", config |-> ConfigOf(self)]
  /\ fig' = <<>>
  /\ LET tree == create_tree_from_config(ConfigOf(self), color_scales_file)
     IN IF tree.raised
        THEN /\ pc' = "failed"
             /\ raised' = tree.value
             /\ UNCHANGED model
        ELSE /\ pc' = "ready"
             /\ raised' = ""
             /\ sphere_scale_factor' = tree.value.sphere_scale_factor
             /\ spacing_factor' = tree.value.spacing_factor
             /\ color_data' = tree.value.color_data
             /\ sephiroth' = tree.value.sephiroth
             /\ daath' = tree.value.daath
             /\ paths' = tree.value.paths
             /\ sephiroth_color_scheme' = tree.value.sephiroth_color_scheme
             /\ path_color_scheme' = tree.value.path_color_scheme
             /\ sephiroth_text_mode' = tree.value.sephiroth_text_mode
             /\ show_sephiroth_text' = tree.value.show_sephiroth_text
             /\ show_path_text' = tree.value.show_path_text
             /\ UNCHANGED color_scales_file

\* Diagrams of two sizes, every order of three schemes on the two
\* collections, the text settings, and the rebuild from the document.
NextConfig ==
  \/ \E scale \in GeometryScales, s1 \in GeometrySchemes,
        s2 \in GeometrySchemes :
       Construct(scale, default_spacing_factor, s1, s2, FileScales)
  \/ \E scheme \in GeometrySchemes : SetSephirothColorScheme(scheme)
  \/ \E scheme \in GeometrySchemes : SetPathColorScheme(scheme)
  \/ \E visible \in BOOLEAN : SetSephirothTextVisibility(visible)
  \/ \E visible \in BOOLEAN : SetPathTextVisibility(visible)
  \/ \E mode \in RenderTextModes : SetSephirothTextMode(mode)
  \/ CreateTreeFromConfig

SpecConfig == Init /\ [][NextConfig]_vars

\* get_contrasting_text_color, called with the color "#RRGGBB" of the
\* channels r, g, b.
ContrastCall(r, g, b) ==
  /\ call' = [op |-> "get_contrasting_text_color",
              background_color |-> HexColor(r, g, b)]
  /\ raised' = ""
  /\ fig' = << [op |-> "return",
                value |-> ContrastOfChars(HexColor(r, g, b))] >>
  /\ UNCHANGED <<pc, model>>

\* Channel values on both sides of the thresholds, and those of the colors
\* named in the tests.
Reds == {0, 7, 127, 128, 129, 136, 150, 255}
Greens == {0, 127, 128, 129, 136, 150, 240, 241, 251, 255}
Blues == {0, 5, 80, 127, 128, 129, 136, 150, 255}

NextContrast ==
  \E r \in Reds, g \in Greens, b \in Blues : ContrastCall(r, g, b)

SpecContrast == Init /\ [][NextContrast]_vars

\* apply_color_effect(ax, 'sephirah', number, x, y, color, effect, radius),
\* called with the generator rng: fig holds the primitives it adds,
\* followed by the local variables of the branch it took.
ApplyColorEffect(rng, number, coord, color, effect, radius) ==
  /\ call' = [op |-> "apply_color_effect", element_type |-> "sephirah",
              number |-> number, coord |-> coord, color |-> color,
              effect |-> effect, radius |-> radius, rng |-> rng]
  /\ raised' = ""
  /\ LET r == apply_color_effect(rng, number, coord, color, effect, radius)
     IN fig' = r.cmds \o << [op |-> "locals"] @@ r.locals >>
  /\ UNCHANGED <<pc, model>>

\* apply_path_effect(ax, path_num, x1, y1, x2, y2, color, effect,
\* sphere_scale_factor) for the Path path_num of a diagram with the given
\* spacing.
ApplyPathEffect(rng, path_num, color, effect, scale, spacing) ==
  /\ call' = [op |-> "apply_path_effect", path_num |-> path_num,
              color |-> color, effect |-> effect,
              sphere_scale_factor |-> scale, spacing_factor |-> spacing,
              rng |-> rng]
  /\ raised' = ""
  /\ LET c1 == coords(spacing)[path_connections[path_num][1]]
         c2 == coords(spacing)[path_connections[path_num][2]]
         r == apply_path_effect(rng, path_num, c1, c2, color, effect,
                                scale, spacing)
     IN fig' = r.cmds \o << [op |-> "locals"] @@ r.locals >>
  /\ UNCHANGED <<pc, model>>

\* The effects the two functions are called with: every kind, and a kind
\* they do not know, with each shape of the secondary color; no effect; an
\* effect without type.
EffectKinds == {"flecked", "rayed", "tinged"}
EffectShapes(type) ==
  { [type |-> type],
    [type |-> type, color2 |-> "gold", color2_hex |-> "#FFD700"],
    [type |-> type, colors |-> <<>>],
    [type |-> type,
     colors |-> <<[name |-> "azure", hex |-> "#007FFF"],
                  [name |-> "black", hex |-> "#000000"]>>],
    [type |-> type,
     colors |-> <<[name |-> "azure"], [name |-> "black", hex |-> "#000000"]>>],
    [type |-> type, color2_hex |-> "#800080",
     colors |-> <<[name |-> "azure", hex |-> "#007FFF"]>>] }
EffectInputs ==
  {None, [color2 |-> "gold", color2_hex |-> "#FFD700"]}
    \cup UNION {EffectShapes(type) : type \in EffectKinds \cup {"banded"}}
EffectBaseColors == {"#000000", "#FFA500"}
EffectSephiroth == {0, 2}
EffectPaths == {11, 13}
EffectRadii == {0, circle_radius(default_sphere_scale_factor)}
EffectGenerators == {Unseeded, [seed |-> 2, pos |-> 150]}

NextEffect ==
  \/ \E rng \in EffectGenerators, number \in EffectSephiroth,
        color \in EffectBaseColors, effect \in EffectInputs,
        radius \in EffectRadii :
       ApplyColorEffect(rng, number, <<0, 0>>, color, effect, radius)
  \/ \E rng \in EffectGenerators, path_num \in EffectPaths,
        color \in EffectBaseColors, effect \in EffectInputs :
       ApplyPathEffect(rng, path_num, color, effect,
                       default_sphere_scale_factor, default_spacing_factor)

SpecEffect == Init /\ [][NextEffect]_vars

NextGeometry ==
  \/ \E scale \in GeometryScales, spacing \in GeometrySpacings,
        s1 \in GeometrySchemes, s2 \in GeometrySchemes :
       Construct(scale, spacing, s1, s2, FileScales)
  \/ \E scheme \in GeometrySchemes : SetSephirothColorScheme(scheme)
  \/ \E scheme \in GeometrySchemes : SetPathColorScheme(scheme)
  \/ \E focus \in GeometryFocuses, rng \in GeneratorStates :
       Render(focus, FALSE, rng)

SpecGeometry == Init /\ [][NextGeometry]_vars

(***************************************************************************)
(* Properties                                                              *)
(***************************************************************************)
IsCall(c, op) == c.op = op

SephirothAllPlain(seph, da) ==
  /\ DOMAIN seph = SephirothNumbers
  /\ \A n \in SephirothNumbers :
       /\ seph[n].color = DEFAULT_SEPHIROTH_COLORS[n]
       /\ seph[n].color_effect = None
  /\ da.color = DEFAULT_SEPHIROTH_COLORS[0]
  /\ da.color_effect = None

PathsAllPlain(pths) ==
  /\ DOMAIN pths = PathNumbers
  /\ \A n \in PathNumbers :
       /\ pths[n].color = DEFAULT_PATH_COLORS[n]
       /\ pths[n].color_effect = None

\* C1: after set_sephiroth_color_scheme(PLAIN) every Sephirah 1-10 and
\* Da'ath has its default color and no effect; after
\* set_path_color_scheme(PLAIN) so has every Path 11-32; and a second plain
\* call right after a plain call on the same collection changes nothing.
C1_PlainResets ==
  /\ [](/\ (IsCall(call, "set_sephiroth_color_scheme") /\ call.scheme = PLAIN)
             => SephirothAllPlain(sephiroth, daath)
        /\ (IsCall(call, "set_path_color_scheme") /\ call.scheme = PLAIN)
             => PathsAllPlain(paths))
  /\ [][/\ (/\ IsCall(call, "set_sephiroth_color_scheme") /\ call.scheme = PLAIN
            /\ IsCall(call', "set_sephiroth_color_scheme") /\ call'.scheme = PLAIN)
             => (sephiroth' = sephiroth /\ daath' = daath)
        /\ (/\ IsCall(call, "set_path_color_scheme") /\ call.scheme = PLAIN
            /\ IsCall(call', "set_path_color_scheme") /\ call'.scheme = PLAIN)
             => paths' = paths]_vars

\* Plain was applied to the Sephiroth of a diagram whose Paths hold colors
\* of a symbolic scheme.
C1_Witness ==
  /\ IsCall(call, "set_sephiroth_color_scheme") /\ call.scheme = PLAIN
  /\ path_color_scheme = KING_SCALE
  /\ paths[11].color = "#FFFF00"
  /\ paths[11].color_effect # None

\* C2: a call applying a symbolic scheme that is in the color table does
\* not raise, gives every element that has an entry for the scheme the
\* entry's color and effect, and leaves every element without an entry as
\* it was before the call.
C2_SchemeApplied ==
  [][/\ (/\ IsCall(call', "set_sephiroth_color_scheme")
         /\ call'.scheme # PLAIN
         /\ call'.scheme \in DOMAIN color_data)
          => LET table == color_data[call'.scheme].sephiroth
             IN /\ raised' = ""
                /\ DOMAIN sephiroth' = SephirothNumbers
                /\ \A n \in SephirothNumbers :
                     IF n \in DOMAIN table
                     THEN /\ sephiroth'[n].color = table[n].color
                          /\ sephiroth'[n].color_effect = table[n].effects
                     ELSE /\ sephiroth'[n].color = sephiroth[n].color
                          /\ sephiroth'[n].color_effect = sephiroth[n].color_effect
                /\ IF 0 \in DOMAIN table
                   THEN /\ daath'.color = table[0].color
                        /\ daath'.color_effect = table[0].effects
                   ELSE /\ daath'.color = daath.color
                        /\ daath'.color_effect = daath.color_effect
     /\ (/\ IsCall(call', "set_path_color_scheme")
         /\ call'.scheme # PLAIN
         /\ call'.scheme \in DOMAIN color_data)
          => LET table == color_data[call'.scheme].paths
             IN /\ raised' = ""
                /\ DOMAIN paths' = PathNumbers
                /\ \A n \in PathNumbers :
                     IF n \in DOMAIN table
                     THEN /\ paths'[n].color = table[n].color
                          /\ paths'[n].color_effect = table[n].effects
                     ELSE /\ paths'[n].color = paths[n].color
                          /\ paths'[n].color_effect = paths[n].color_effect]_vars

\* The king scheme was applied to Sephiroth that held the queen scheme:
\* 2 has the king entry, 3 (no king entry) keeps its queen color and effect.
C2_Witness ==
  /\ IsCall(call, "set_sephiroth_color_scheme") /\ call.scheme = KING_SCALE
  /\ sephiroth[2].color = "#00FF00"
  /\ sephiroth[2].color_effect # None
  /\ sephiroth[1].color_effect = None
  /\ sephiroth[3].color = "#000000"
  /\ sephiroth[3].color_effect = [type |-> "tinged"]

\* C3: a call applying a scheme that is not in the color table leaves the
\* Sephiroth, Da'ath and the Paths exactly as they were.
C3_UnknownSchemeNoOp ==
  [][(/\ call'.op \in {"set_sephiroth_color_scheme", "set_path_color_scheme"}
      /\ call'.scheme # PLAIN
      /\ call'.scheme \notin DOMAIN color_data)
       => (sephiroth' = sephiroth /\ daath' = daath /\ paths' = paths)]_vars

\* A symbolic scheme was requested for the Sephiroth of a diagram whose
\* table does not hold it.
C3_Witness ==
  /\ pc = "ready"
  /\ IsCall(call, "set_sephiroth_color_scheme") /\ call.scheme = QUEEN_SCALE
  /\ QUEEN_SCALE \notin DOMAIN color_data
  /\ path_color_scheme = PRINCE_SCALE
  /\ DOMAIN sephiroth = SephirothNumbers

\* C4: with an empty color table, every Sephirah, Da'ath and every Path
\* has its default color and no effect after construction and after every
\* later call.
C4_EmptyTableAllPlain ==
  (pc = "ready" /\ ~Truthy(color_data))
    => (SephirothAllPlain(sephiroth, daath) /\ PathsAllPlain(paths))

\* A diagram built over an unparseable file with symbolic initial schemes,
\* after a further symbolic selection for the Paths.
C4_Witness ==
  /\ pc = "ready"
  /\ color_scales_file = FileInvalid
  /\ ~Truthy(color_data)
  /\ sephiroth_color_scheme = KING_SCALE
  /\ IsCall(call, "set_path_color_scheme") /\ call.scheme = PRINCESS_SCALE

\* C5: set_sephiroth_color_scheme leaves the Paths and their recorded
\* scheme unchanged, and set_path_color_scheme leaves the Sephiroth,
\* Da'ath and their recorded scheme unchanged.
C5_Independent ==
  [][/\ IsCall(call', "set_sephiroth_color_scheme")
          => (paths' = paths /\ path_color_scheme' = path_color_scheme)
     /\ IsCall(call', "set_path_color_scheme")
          => /\ sephiroth' = sephiroth
             /\ daath' = daath
             /\ sephiroth_color_scheme' = sephiroth_color_scheme]_vars

\* The Sephiroth hold the king scheme while the Paths hold the queen scheme.
C5_Witness ==
  /\ IsCall(call, "set_sephiroth_color_scheme")
  /\ sephiroth_color_scheme = KING_SCALE
  /\ path_color_scheme = QUEEN_SCALE
  /\ sephiroth[2].color = "#00FF00"
  /\ paths[11].color = "#00FFFF"

\* The input classes of C6.
C6Files == {FileMissing, FileUnreadable, FileInvalid, FileEmpty, FileNoScales}

\* C6: loading the color table does not raise for a missing file, an
\* unreadable file, an invalid document, an empty document or a document
\* without the scheme collection: construction over such a file completes.
C6_LoaderNeverRaises ==
  (IsCall(call, "__init__") /\ call.file \in C6Files)
    => (raised = "" /\ pc = "ready")

\* C7: an entry whose hex color is missing is loaded as white, and the
\* remaining entries are loaded, without raising.
C7_MissingHexIsWhite ==
  (IsCall(call, "__init__") /\ call.file = FileNoHex)
    => /\ raised = ""
       /\ pc = "ready"
       /\ color_data["king"].sephiroth[2].color = "#FFFFFF"
       /\ color_data["king"].paths[11].color = "#FFFFFF"
       /\ color_data["king"].sephiroth[1].color = "#FFFFFE"
       /\ color_data["king"].paths[12].color = "#FF0000"

\* The drawing commands of a render without focus and without failure.
FullRender ==
  DrawDiagram(self, NoFocus, call.rng)

\* C8: a render whose focus is an integer outside 1-10 does not raise and
\* issues exactly the commands of a render without focus.
C8_InvalidFocusIsFull ==
  (IsCall(call, "render") /\ call.focus # NoFocus /\ ~IsFocused(call.focus))
    => (raised = "" /\ fig = FullRender)

\* C9: a render changes nothing of the diagram, and a full render that
\* follows a focused render issues the commands of a full render of the
\* diagram as it was.
C9_RenderPure ==
  [][/\ IsCall(call', "render") => UNCHANGED <<pc, model>>
     /\ (/\ IsCall(call, "render") /\ IsFocused(call.focus)
         /\ IsCall(call', "render") /\ call'.focus = NoFocus)
          => fig' = DrawDiagram(self, NoFocus, call'.rng)]_vars

\* A focused render of a diagram holding symbolic colors and effects.
C9_Witness ==
  /\ IsCall(call, "render") /\ call.focus = 6
  /\ raised = ""
  /\ sephiroth[6].color = "#FFC0CB"
  /\ paths[13].color = "#888888"
  /\ Len(fig) > 0

\* The Paths that have N as one of their two Sephiroth in path_connections.
PathsAt(N) ==
  {e \in PathNumbers : path_connections[e][1] = N \/ path_connections[e][2] = N}

\* The Sephiroth at the other end of the Paths at N.
Neighbours(N) ==
  {m \in SephirothNumbers \ {N} :
     \E e \in PathNumbers : {path_connections[e][1], path_connections[e][2]} = {N, m}}

\* C10: for every N in 1-10 the connected Paths are exactly the Paths whose
\* connects holds N-1, the numbered connected Sephiroth are exactly the
\* other ends of those Paths, and there are as many of them as Paths.
C10_ConnectedSets ==
  pc = "ready" =>
    \A N \in SephirothNumbers :
      LET cp == _get_connected_paths(paths, N)
          cs == _get_connected_sephiroth(paths, N) \cap SephirothNumbers
      IN /\ cp = PathsAt(N)
         /\ \A e \in PathNumbers :
              e \in cp <=> (N - 1) \in {paths[e].connects[1], paths[e].connects[2]}
         /\ cs = Neighbours(N)
         /\ Cardinality(cs) = Cardinality(cp)

\* A render focused on Tiphereth, which has eight Paths, drew those Paths.
C10_Witness ==
  /\ IsCall(call, "render") /\ call.focus = 6
  /\ Cardinality(_get_connected_paths(paths, 6)) = 8
  /\ {fig[i].path : i \in {j \in 1..Len(fig) : fig[j].op = "plot"}}
       = _get_connected_paths(paths, 6)

\* The places of fig that hold a command of the kind op.
Places(op) == {i \in DOMAIN fig : fig[i].op = op}

\* The command draws a Path or something on it.
IsPathCommand(c) == "path" \in DOMAIN c

\* C11: in a render focused on N, Da'ath (0) is in the set of connected
\* Sephiroth computed for N, and is drawn, exactly when N is 1 or 6.
C11_DaathOnlyForKetherAndTiphereth ==
  (IsCall(call, "render") /\ IsFocused(call.focus))
    => /\ (0 \in _get_connected_sephiroth(paths, call.focus))
            <=> call.focus \in {1, 6}
       /\ (\E i \in Places("circle") : fig[i].seph = 0)
            <=> call.focus \in {1, 6}

UnderneathGroup == {13, 15, 17, 25}
SpecialGroup == {14, 19, 27}

\* C18: in every render each command drawing a Path (outer stroke, inner
\* stroke, effect, label) comes before the first circle of a Sephirah, and
\* the outer stroke of a Path comes before its inner stroke and is wider.
C18_PathsBeforeSephiroth ==
  IsCall(call, "render")
    => /\ \A j \in Places("circle") :
            \A i \in (j + 1)..Len(fig) : ~IsPathCommand(fig[i])
       /\ \A i \in Places("plot") :
            fig[i].part = "outer"
              => /\ i + 1 \in Places("plot")
                 /\ fig[i + 1].part = "inner"
                 /\ fig[i + 1].path = fig[i].path
                 /\ fig[i].linewidth > fig[i + 1].linewidth
       /\ \A i \in Places("plot") :
            fig[i].part = "inner"
              => /\ i - 1 \in Places("plot")
                 /\ fig[i - 1].part = "outer"
                 /\ fig[i - 1].path = fig[i].path

\* A render of the whole diagram drew strokes, the flecks of a Path, labels
\* and circles.
C18_Witness ==
  /\ IsCall(call, "render") /\ call.focus = NoFocus
  /\ \E i \in Places("flecks") : IsPathCommand(fig[i])
  /\ \E i \in Places("text") : IsPathCommand(fig[i])
  /\ Cardinality(Places("plot")) = 44
  /\ Cardinality(Places("circle")) = 11

\* C19: each stroke of a Path of the underneath group has a z-order below
\* that of every stroke of every Path outside the group, and the strokes of
\* Paths 14, 19 and 27 have the z-orders of the strokes of ordinary Paths.
C19_UnderneathGroupIsLower ==
  IsCall(call, "render")
    => \A i \in Places("plot"), j \in Places("plot") :
         /\ (fig[i].path \in UnderneathGroup
               /\ fig[j].path \notin UnderneathGroup)
              => fig[i].zorder < fig[j].zorder
         /\ (fig[i].path \in SpecialGroup
               /\ fig[j].path \notin UnderneathGroup \cup SpecialGroup
               /\ fig[i].part = fig[j].part)
              => fig[i].zorder = fig[j].zorder

\* C20: in a render focused on N every circle of a Sephirah other than N,
\* Da'ath included, is filled #E0E0E0 and outlined #AAAAAA, and the circle
\* of N is filled with the color of N.
C20_OnlyFocusKeepsColor ==
  (IsCall(call, "render") /\ IsFocused(call.focus))
    => \A i \in Places("circle") :
         IF fig[i].seph = call.focus
         THEN fig[i].facecolor = sephiroth[call.focus].color
         ELSE /\ fig[i].facecolor = "#E0E0E0"
              /\ fig[i].edgecolor = "#AAAAAA"

\* The two Sephiroth a Path joins, by number.
Ends(path) == {path.connects[1] + 1, path.connects[2] + 1}

\* C14: in every state of a constructed diagram the Sephiroth are exactly
\* 1-10, Da'ath is 0 and the Paths are exactly 11-32; each Path joins two
\* different Sephiroth of 1-10, no two Paths join the same two, every
\* Sephirah is an end of some Path; and number, name, coord and connects
\* are those that construction gave.
C14_TopologyIsFixed ==
  pc = "ready"
    => /\ DOMAIN sephiroth = 1..10
       /\ DOMAIN paths = 11..32
       /\ daath.number = 0
       /\ \A n \in DOMAIN paths :
            /\ Ends(paths[n]) \subseteq 1..10
            /\ Cardinality(Ends(paths[n])) = 2
       /\ \A m \in DOMAIN paths, n \in DOMAIN paths :
            Ends(paths[m]) = Ends(paths[n]) => m = n
       /\ \A k \in DOMAIN sephiroth :
            \E n \in DOMAIN paths : k \in Ends(paths[n])
       /\ \A k \in DOMAIN sephiroth :
            /\ sephiroth[k].number = k
            /\ sephiroth[k].name = SephirothNames[k]
            /\ sephiroth[k].coord = coords(spacing_factor)[k]
       /\ daath.name = "Da'ath"
       /\ daath.coord = _init_daath(spacing_factor).coord
       /\ \A n \in DOMAIN paths :
            /\ paths[n].number = n
            /\ paths[n].connects = <<path_connections[n][1] - 1,
                                     path_connections[n][2] - 1>>

\* A diagram of another size was rendered after both collections took the
\* colors of a symbolic scheme.
C14_Witness ==
  /\ IsCall(call, "render") /\ call.focus = 6
  /\ spacing_factor = 200 /\ sphere_scale_factor = 100
  /\ sephiroth[2].color = "#00FF00"
  /\ paths[24].color = "#FFA500"

\* C16: the flecks of an element are drawn from the stream seeded with the
\* number of the element, from its first value on: 3 * 50 values for a
\* Sephirah, 3 * int(path_length * 15) for a Path, whatever generator
\* render found and whatever was drawn before the element; two renders of
\* the diagram, one after the other, give an element that has flecks in
\* both the same flecks.
C16_FlecksAreReproducible ==
  /\ [](IsCall(call, "render")
          => \A i \in Places("flecks") :
               IF IsPathCommand(fig[i])
               THEN /\ fig[i].count =
                         NumFlecks(fig[i].ends[1], fig[i].ends[2],
                                   spacing_factor)
                    /\ fig[i].draws = [seed |-> fig[i].path, from |-> 1,
                                       to |-> 3 * fig[i].count]
               ELSE /\ fig[i].count = 50
                    /\ fig[i].draws = [seed |-> fig[i].seph, from |-> 1,
                                       to |-> 150])
  /\ [][(IsCall(call, "render") /\ IsCall(call', "render"))
          => \A i \in Places("flecks") :
               \A j \in {k \in DOMAIN fig' : fig'[k].op = "flecks"} :
                 (IsPathCommand(fig[i]) = IsPathCommand(fig'[j])
                    /\ (IF IsPathCommand(fig[i])
                        THEN fig[i].path = fig'[j].path
                        ELSE fig[i].seph = fig'[j].seph))
                   => fig[i] = fig'[j]]_vars

\* render found a generator that earlier drawing had left, and drew the
\* flecks of two Paths and of a Sephirah one after the other.
C16_Witness ==
  /\ IsCall(call, "render") /\ call.focus = NoFocus
  /\ call.rng = [seed |-> 18, pos |-> 7]
  /\ Cardinality({i \in Places("flecks") : IsPathCommand(fig[i])}) = 2
  /\ Cardinality({i \in Places("flecks") : ~IsPathCommand(fig[i])}) = 1

Channel(i) == HexByte(LStripHash(call.background_color), 2 * (i - 1))
Returned == fig[1].value
IsBrightGreen == Channel(1) = 0 /\ Channel(2) > 240 /\ Channel(3) = 0

\* C12 as stated: outside the special case the result is white when the
\* brightness is 150 or less and black when it is more.
C12_WhiteAtOrBelow150 ==
  (IsCall(call, "get_contrasting_text_color") /\ ~IsBrightGreen)
    => Returned = IF Brightness(Channel(1), Channel(2), Channel(3)) <= 150000
                  THEN "#FFFFFF" ELSE "#000000"

\* C12: outside the special case the result is white when the brightness is
\* less than 150 and black when it is more; at 150 it is black, except for
\* the colors whose sum in double precision falls below 150, which get
\* white; #000000, #7F7F7F, #808080, #818181 and #888888 give white,
\* #FFFFFF and #FFFF00 give black.
C12_WhiteBelow150 ==
  (IsCall(call, "get_contrasting_text_color") /\ ~IsBrightGreen)
    => LET r == Channel(1)
           g == Channel(2)
           b == Channel(3)
       IN /\ Brightness(r, g, b) < 150000 => Returned = "#FFFFFF"
          /\ Brightness(r, g, b) > 150000 => Returned = "#000000"
          /\ Brightness(r, g, b) = 150000
               => Returned = IF <<r, g, b>> \in RoundedBelow150
                             THEN "#FFFFFF" ELSE "#000000"
          /\ (r = g /\ g = b /\ r \in {0, 127, 128, 129, 136})
               => Returned = "#FFFFFF"
          /\ (r = 255 /\ g = 255 /\ b \in {0, 255}) => Returned = "#000000"

\* The color #969696, of brightness 150, got black.
C12_Witness ==
  /\ IsCall(call, "get_contrasting_text_color")
  /\ call.background_color = <<"#", "9", "6", "9", "6", "9", "6">>
  /\ Returned = "#000000"

\* C13: the result is black for every color with red 0, blue 0 and green
\* above 240, each of which has a brightness below 150 and would get white
\* by brightness; for every other color the result is the one brightness
\* gives.
C13_BrightGreenOverride ==
  IsCall(call, "get_contrasting_text_color")
    => IF IsBrightGreen
       THEN /\ Returned = "#000000"
            /\ Brightness(Channel(1), Channel(2), Channel(3)) < 150000
            /\ BrightnessColor(Channel(1), Channel(2), Channel(3)) = "#FFFFFF"
       ELSE Returned = BrightnessColor(Channel(1), Channel(2), Channel(3))

\* The color #00FF00 got black.
C13_Witness ==
  /\ IsCall(call, "get_contrasting_text_color")
  /\ call.background_color = <<"#", "0", "0", "F", "F", "0", "0">>
  /\ Returned = "#000000"

\* The last call rebuilt the diagram from its document: what the rebuild
\* must give back of the settings in every case.
RebuildKeepsSettings ==
  /\ pc' = "ready"
  /\ sphere_scale_factor' = sphere_scale_factor
  /\ spacing_factor' = spacing_factor
  /\ sephiroth_color_scheme' = sephiroth_color_scheme
  /\ path_color_scheme' = path_color_scheme
  /\ sephiroth_text_mode' = sephiroth_text_mode
  /\ show_sephiroth_text' = show_sephiroth_text
  /\ show_path_text' = show_path_text

\* The entries of the recorded scheme for a collection; none when the scheme
\* is not in the color table.
EntriesOf(scheme, collection) ==
  IF scheme \in DOMAIN color_data
  THEN color_data[scheme][collection] ELSE None

EffectPlaces ==
  {i \in DOMAIN fig :
     fig[i].op \in {"flecks", "rays", "apply_color_effect", "apply_path_effect"}}

\* C21: in a render focused on N the glow circles of Kether are issued
\* exactly when N is 1; no glow is issued when Kether is drawn as a gray
\* neighbour of the focus.
C21_GlowOnlyForFocus ==
  (IsCall(call, "render") /\ IsFocused(call.focus))
    => ((Places("glow") # {}) <=> call.focus = 1)

\* C22: in a render focused on N no primitive of an effect is issued for a
\* Sephirah other than N, for Da'ath, or for a Path that does not touch N.
C22_NoEffectOnGray ==
  (IsCall(call, "render") /\ IsFocused(call.focus))
    => \A i \in EffectPlaces :
         IF IsPathCommand(fig[i])
         THEN InConnects(call.focus - 1, paths[fig[i].path].connects)
         ELSE fig[i].seph = call.focus

\* The places of fig that hold a command of the kind op for the Path e.
PathPlaces(op, e) ==
  {i \in Places(op) : IsPathCommand(fig[i]) /\ fig[i].path = e}

\* C28: in every render each Path of the draw set gets exactly one outer
\* stroke, one inner stroke and at most one label from the three path
\* loops together, and a Path outside the draw set gets no command at all.
C28_LoopsPartitionPaths ==
  IsCall(call, "render")
    => \A e \in PathNumbers :
         IF e \in PathsToDraw(paths, call.focus)
         THEN /\ Cardinality({i \in PathPlaces("plot", e) :
                                fig[i].part = "outer"}) = 1
              /\ Cardinality({i \in PathPlaces("plot", e) :
                                fig[i].part = "inner"}) = 1
              /\ Cardinality(PathPlaces("text", e))
                   = (IF show_path_text THEN 1 ELSE 0)
         ELSE \A i \in DOMAIN fig :
                IsPathCommand(fig[i]) => fig[i].path # e

\* A labelled render focused on Chokmah drew a Path of each loop: 11 and
\* 16 (first loop), 15 (underneath) and 14 (special).
C28_Witness ==
  /\ IsCall(call, "render") /\ call.focus = 2
  /\ show_path_text
  /\ {fig[i].path : i \in Places("plot")} = {11, 14, 15, 16}
  /\ Cardinality(Places("plot")) = 8
  /\ Cardinality({i \in Places("text") : IsPathCommand(fig[i])}) = 4

\* C29: in a render without focus the inner stroke of every Path has the
\* color of the Path, and the effect of every Path that has one is
\* applied, whatever the color is.
C29_ResolvedColorIsDrawn ==
  (IsCall(call, "render") /\ call.focus = NoFocus)
    => \A e \in DOMAIN paths :
         /\ \A i \in PathPlaces("plot", e) :
              fig[i].part = "inner" => fig[i].color = paths[e].color
         /\ Truthy(paths[e].color_effect)
              => PathPlaces("apply_path_effect", e) # {}

\* C30: a call that selects a scheme the color table does not hold leaves
\* the recorded selection of its collection as it was.
C30_RejectedSchemeNotRecorded ==
  [][/\ (/\ IsCall(call', "set_sephiroth_color_scheme")
         /\ call'.scheme # PLAIN
         /\ call'.scheme \notin DOMAIN color_data)
          => sephiroth_color_scheme' = sephiroth_color_scheme
     /\ (/\ IsCall(call', "set_path_color_scheme")
         /\ call'.scheme # PLAIN
         /\ call'.scheme \notin DOMAIN color_data)
          => path_color_scheme' = path_color_scheme]_vars

\* The effect is one of the three kinds.
HasKind(effect) ==
  Truthy(effect) /\ "type" \in DOMAIN effect /\ effect.type \in EffectKinds

\* The secondary color an effect is to give: its color2_hex; without it the
\* hex of the first entry of its colors, white when that entry has no hex;
\* white without both.
ResolvedSecondary(effect) ==
  IF "color2_hex" \in DOMAIN effect THEN effect.color2_hex
  ELSE IF "colors" \in DOMAIN effect /\ effect.colors # <<>>
       THEN (IF "hex" \in DOMAIN Head(effect.colors)
             THEN Head(effect.colors).hex ELSE "#FFFFFF")
       ELSE "#FFFFFF"

\* C23: apply_color_effect and apply_path_effect, called with an effect of
\* one of the three kinds, resolve the secondary color in the order
\* color2_hex, first entry of colors (white without hex), white: it is the
\* color of every primitive they add and the value of color2 (tinge_color
\* for tinged) when they return.
C23_SecondaryColorOrder ==
  (call.op \in {"apply_color_effect", "apply_path_effect"}
     /\ HasKind(call.effect))
    => LET locals == fig[Len(fig)]
           expected == ResolvedSecondary(call.effect)
       IN /\ locals.op = "locals"
          /\ locals.branch = call.effect.type
          /\ IF call.effect.type = "tinged"
             THEN locals.tinge_color = expected
             ELSE locals.color2 = expected
          /\ \A i \in Places("flecks") \cup Places("rays") :
               fig[i].color = expected

\* Rays were added to a Path for an effect that holds both color2_hex and
\* a list of colors.
C23_Witness ==
  /\ IsCall(call, "apply_path_effect")
  /\ HasKind(call.effect)
  /\ call.effect.type = "rayed"
  /\ {"color2_hex", "colors"} \subseteq DOMAIN call.effect
  /\ \E i \in Places("rays") : fig[i].color = "#800080"

\* The effect is tinged.
IsTinged(effect) ==
  Truthy(effect) /\ "type" \in DOMAIN effect /\ effect.type = "tinged"

\* The lower-case form of a color, as blend_colors returns it.
Lower(color) == to_hex(to_rgb(color))

\* C24: in every render the circle of a Sephirah that is not grayed and
\* whose effect is tinged is filled with the blend of its color and the
\* secondary color of the effect, the inner stroke of such a Path is drawn
\* in a blend of the two, and no flecks and no rays are added for them.
C24_TingedShapeIsBlended ==
  IsCall(call, "render")
    => /\ \A n \in DOMAIN sephiroth :
            (IsTinged(sephiroth[n].color_effect)
               /\ (call.focus = NoFocus \/ call.focus = n))
              => \A i \in DOMAIN fig :
                   (~IsPathCommand(fig[i]) /\ "seph" \in DOMAIN fig[i]
                      /\ fig[i].seph = n)
                     => /\ fig[i].op \notin {"flecks", "rays"}
                        /\ fig[i].op = "circle"
                             => Lower(fig[i].facecolor)
                                  = blend_colors(
                                      sephiroth[n].color,
                                      ResolvedSecondary(
                                        sephiroth[n].color_effect), 70)
       /\ \A e \in DOMAIN paths :
            (IsTinged(paths[e].color_effect)
               /\ PathColor(paths[e], call.focus) # "#888888")
              => \A i \in DOMAIN fig :
                   (IsPathCommand(fig[i]) /\ fig[i].path = e)
                     => /\ fig[i].op \notin {"flecks", "rays"}
                        /\ (fig[i].op = "plot" /\ fig[i].part = "inner")
                             => \E ratio \in {70, 80} :
                                  Lower(fig[i].color)
                                    = blend_colors(
                                        paths[e].color,
                                        ResolvedSecondary(
                                          paths[e].color_effect), ratio)

\* The plot limits of the last render, in quarters of a ten-thousandth.
Limits ==
  [min_x |-> fig[1].left, max_x |-> fig[1].right,
   min_y |-> fig[2].bottom, max_y |-> fig[2].top]

\* The point where the label of the Path e belongs: the midpoint of its two
\* Sephiroth, raised by 1.6 spacings for Path 13 and 0.38 for Path 25.
LabelMidpoint(e) ==
  LET a == sephiroth[path_connections[e][1]].coord
      b == sephiroth[path_connections[e][2]].coord
      raise == IF e = 13 THEN 160 * spacing_factor
               ELSE IF e = 25 THEN 38 * spacing_factor ELSE 0
  IN << 2 * (a[1] + b[1]), 2 * (a[2] + b[2]) + 4 * raise >>

\* The points a render focused on N has to show: the centers of the
\* circles it drew and the label points of the Paths at N.
DrawnPoints ==
  { << 4 * fig[i].center[1], 4 * fig[i].center[2] >> : i \in Places("circle") }
    \cup { LabelMidpoint(e) : e \in PathsAt(call.focus) }

\* The smallest axis-aligned box that covers the points.
SmallestBox(points) ==
  [min_x |-> SetMin({pt[1] : pt \in points}),
   max_x |-> SetMax({pt[1] : pt \in points}),
   min_y |-> SetMin({pt[2] : pt \in points}),
   max_y |-> SetMax({pt[2] : pt \in points})]

\* The box _calculate_focus_bounds computes for the last render before it
\* pads it.
BoxOfCall ==
  FocusBox(FocusPoints(self,
                       SephirothToDraw(paths, sephiroth, call.focus),
                       PathsToDraw(paths, call.focus)))

\* C25: for a render focused on N the box computed before the padding is
\* the smallest box covering the centers of the circles drawn (N, its
\* neighbours, Da'ath only when it is drawn) and the label points of the
\* Paths at N.
C25_BoxCoversDrawnOnly ==
  (IsCall(call, "render") /\ IsFocused(call.focus))
    => BoxOfCall = SmallestBox(DrawnPoints)

\* C26 as claimed: the limits of a focused render have the width-to-height
\* ratio of the full view, 8.0 to 18.5.
C26_FullViewRatio ==
  (IsCall(call, "render") /\ IsFocused(call.focus))
    => (Limits.max_x - Limits.min_x) * 185
         = (Limits.max_y - Limits.min_y) * 80

\* C26: the limits of a focused render form a square: the width equals the
\* height, for every focus 1-10 and every pair of scale parameters.
C26_LimitsAreSquare ==
  (IsCall(call, "render") /\ IsFocused(call.focus))
    => Limits.max_x - Limits.min_x = Limits.max_y - Limits.min_y

\* A render focused on Malkuth, whose box is wider than high, of a diagram
\* of scale 1.0 and spacing 2.0: both sides are 10.5.
C26_Witness ==
  /\ IsCall(call, "render") /\ call.focus = 10
  /\ sphere_scale_factor = 100 /\ spacing_factor = 200
  /\ BoxOfCall.max_x - BoxOfCall.min_x > BoxOfCall.max_y - BoxOfCall.min_y
  /\ Limits.max_x - Limits.min_x = 420000
  /\ Limits.max_y - Limits.min_y = 420000

\* C27: every point a focused render has to show lies at least 2.5 circle
\* radii inside each side of the limits, and the limits are the padded box
\* with its shorter axis lengthened by the same amount at both ends and its
\* longer axis as it is.
C27_LimitsOnlyExpand ==
  (IsCall(call, "render") /\ IsFocused(call.focus))
    => LET padding == 10 * circle_radius(sphere_scale_factor)
           box == BoxOfCall
           width == box.max_x - box.min_x + 2 * padding
           height == box.max_y - box.min_y + 2 * padding
       IN /\ \A pt \in DrawnPoints :
               /\ pt[1] - Limits.min_x >= padding
               /\ Limits.max_x - pt[1] >= padding
               /\ pt[2] - Limits.min_y >= padding
               /\ Limits.max_y - pt[2] >= padding
          /\ IF width > height
             THEN /\ Limits.min_x = box.min_x - padding
                  /\ Limits.max_x = box.max_x + padding
                  /\ (box.min_y - padding) - Limits.min_y
                       = Limits.max_y - (box.max_y + padding)
                  /\ Limits.min_y < box.min_y - padding
             ELSE /\ Limits.min_y = box.min_y - padding
                  /\ Limits.max_y = box.max_y + padding
                  /\ (box.min_x - padding) - Limits.min_x
                       = Limits.max_x - (box.max_x + padding)
                  /\ Limits.min_x <= box.min_x - padding

\* A render focused on Tiphereth of a diagram of scale 1.75 and spacing
\* 1.5, whose box is higher than wide: x from -8.0 to 8.0, y from -0.3125
\* to 15.6875.
C27_Witness ==
  /\ IsCall(call, "render") /\ call.focus = 6
  /\ sphere_scale_factor = default_sphere_scale_factor
  /\ spacing_factor = default_spacing_factor
  /\ Cardinality(Places("circle")) = 10
  /\ Limits = [min_x |-> 0 - 320000, max_x |-> 320000,
               min_y |-> 0 - 12500, max_y |-> 627500]

====
